---- MODULE Spec2Model ----
(***************************************************************************)
(* Model of the Cloudflare D1 n8n node: the SQL builders of                *)
(* src/utils/CloudflareD1Utils.ts and the table operations of the node's   *)
(* execute() in src/nodes/CloudflareD1/CloudflareD1.node.ts.               *)
(*                                                                         *)
(* SQL text is a sequence of tokens.  The fixed pieces of a template       *)
(* literal are one token each (keywords, punctuation); an interpolated     *)
(* string contributes its characters, one token per character, so that a   *)
(* name is in the text exactly as the caller supplied it.  A JavaScript    *)
(* value is a tagged record: Str(chars), Num(n), Arr(values) or Undef.     *)
(***************************************************************************)
EXTENDS Integers, Sequences, FiniteSets, TLC

VARIABLES call, ret, http, earlier, mem, db, clock, run

\* call, ret, http: the call in progress, what it returned or threw, and the
\*                  requests it sent
\* earlier:         a call made before, with what it returned
\* mem:             the fields and the position of every CloudflareD1Memory
\* db:              the chat-memory table of the D1 database
\* clock:           the time, as new Date() gives it
\* run:             one execution of the node: its items and what it returned
vars == <<call, ret, http, earlier, mem, db, clock, run>>

chat == <<mem, db, clock>>

(***************************************************************************)
(* Bounds of the model.                                                    *)
(***************************************************************************)
MaxCols == 2
MaxWhere == 2
MaxAmount == 2
MaxConds == 2
MaxColumns == 2
MaxName == 3
MaxRows == 3
MaxClock == 2
MaxKeep == 2
MaxItems == 2

(***************************************************************************)
(* JavaScript values.                                                      *)
(***************************************************************************)
Undef == [undef |-> TRUE]
Str(s) == [s |-> s]
Num(n) == [n |-> n]
Arr(a) == [a |-> a]
Obj(o) == [o |-> o]
Null == [null |-> TRUE]
Bool(b) == [b |-> b]

IsUndef(v) == v = Undef
IsStr(v) == DOMAIN v = {"s"}
IsNum(v) == DOMAIN v = {"n"}
IsArr(v) == DOMAIN v = {"a"}
IsNull(v) == v = Null

\* Array.isArray(v)
IsArray(v) == IsArr(v)

\* JavaScript truthiness of a value: undefined, '' and 0 are falsy.
Truthy(v) ==
  CASE IsUndef(v) \/ IsNull(v) -> FALSE
    [] IsStr(v) -> v.s # << >>
    [] IsNum(v) -> v.n # 0
    [] OTHER -> TRUE

(***************************************************************************)
(* Text helpers: template literals, Array.prototype.join.                  *)
(***************************************************************************)
RECURSIVE Join(_, _)
\* parts.join(sep), parts a sequence of texts
Join(parts, sep) ==
  IF parts = << >> THEN << >>
  ELSE IF Len(parts) = 1 THEN parts[1]
  ELSE parts[1] \o sep \o Join(Tail(parts), sep)

\* the column list '*'
Star == <<"*">>

\* `"${name}"`
Quoted(name) == <<"\"">> \o name \o <<"\"">>

\* columns.map(col => `"${col}"`)
QuotedList(names) == [i \in 1..Len(names) |-> Quoted(names[i])]

\* xs.map(() => '?')
Placeholders(n) == [i \in 1..n |-> <<"?">>]

\* `${v}` for a value v interpolated into a template literal
Interpolate(v) ==
  CASE IsUndef(v) -> <<"undefined">>
    [] IsNull(v) -> <<"null">>
    [] IsStr(v) -> v.s
    [] IsNum(v) -> <<ToString(v.n)>>
    [] OTHER -> <<"[array]">>

(***************************************************************************)
(* Objects (IDataObject): the own enumerable string keys in iteration      *)
(* order, each with its value.  Integer-like keys come first in ascending  *)
(* order, the other keys follow in insertion order.                        *)
(***************************************************************************)
Keys(obj) == [i \in 1..Len(obj) |-> obj[i].k]
Values(obj) == [i \in 1..Len(obj) |-> obj[i].v]

Digits == {"0", "1", "2", "3", "4", "5", "6", "7", "8", "9"}

\* a canonical array index: digits only, no leading zero
IsIndexKey(k) ==
  /\ k # << >>
  /\ \A i \in 1..Len(k) : k[i] \in Digits
  /\ (Len(k) > 1 => k[1] # "0")

DigitValue(c) == CHOOSE n \in 0..9 : ToString(n) = c

RECURSIVE KeyNumber(_)
\* the number an index key denotes
KeyNumber(k) ==
  IF k = << >> THEN 0
  ELSE 10 * KeyNumber(SubSeq(k, 1, Len(k) - 1)) + DigitValue(k[Len(k)])

\* numeric order of two index keys
IndexBefore(k1, k2) == KeyNumber(k1) < KeyNumber(k2)

\* the order Object.keys gives: index keys ascending, then the others
IsObjectOrder(obj) ==
  /\ \A i, j \in 1..Len(obj) : i # j => obj[i].k # obj[j].k
  /\ \A i, j \in 1..Len(obj) :
       i < j => /\ (IsIndexKey(obj[j].k) => IsIndexKey(obj[i].k))
                /\ (IsIndexKey(obj[i].k) /\ IsIndexKey(obj[j].k)
                      => IndexBefore(obj[i].k, obj[j].k))

HasKey(obj, k) == \E i \in 1..Len(obj) : obj[i].k = k

\* obj[k] = v: an existing key keeps its place; a new index key goes before
\* the larger index keys and the other keys; any other new key goes last
ObjSet(obj, k, v) ==
  IF HasKey(obj, k)
  THEN [i \in 1..Len(obj) |-> IF obj[i].k = k THEN [k |-> k, v |-> v] ELSE obj[i]]
  ELSE IF IsIndexKey(k)
  THEN LET before == {i \in 1..Len(obj) :
                        IsIndexKey(obj[i].k) /\ IndexBefore(obj[i].k, k)}
           n == Cardinality(before)
       IN  SubSeq(obj, 1, n) \o <<[k |-> k, v |-> v]>> \o SubSeq(obj, n + 1, Len(obj))
  ELSE Append(obj, [k |-> k, v |-> v])

(***************************************************************************)
(* Strings: String.prototype.split(','), trim, includes.                   *)
(***************************************************************************)
Includes(s, c) == \E i \in 1..Len(s) : s[i] = c

RECURSIVE SplitCommas(_)
\* s.split(',')
SplitCommas(s) ==
  IF ~Includes(s, ",") THEN <<s>>
  ELSE LET i == CHOOSE j \in 1..Len(s) : s[j] = "," /\ \A h \in 1..(j - 1) : s[h] # ","
       IN  <<SubSeq(s, 1, i - 1)>> \o SplitCommas(SubSeq(s, i + 1, Len(s)))

RECURSIVE Trim(_)
\* s.trim()
Trim(s) ==
  IF s = << >> THEN s
  ELSE IF Head(s) = " " THEN Trim(Tail(s))
  ELSE IF s[Len(s)] = " " THEN Trim(SubSeq(s, 1, Len(s) - 1))
  ELSE s

\* v.split(',').map(v => v.trim()), as an array of string values
SplitTrim(s) == LET parts == SplitCommas(s) IN [i \in 1..Len(parts) |-> Str(Trim(parts[i]))]

(***************************************************************************)
(* Results of a builder call.                                              *)
(***************************************************************************)
Ok(sql, params) == [status |-> "ok", sql |-> sql, params |-> params]
Threw(msg) == [status |-> "error", error |-> msg]
Idle == [status |-> "idle"]

(***************************************************************************)
(* Identifier validation.                                                  *)
(***************************************************************************)
Letters == {"a", "b", "c", "d", "t", "u", "x", "y", "z", "A", "Z", "_"}

\* the regular expression without its anchors: /[a-zA-Z_][a-zA-Z0-9_]*/
ValidIdentifier_Unanchored(name) == \E i \in 1..Len(name) : name[i] \in Letters

\* /^[a-zA-Z_][a-zA-Z0-9_]*$/.test(name)
ValidIdentifier(name) ==
  /\ name # << >>
  /\ name[1] \in Letters
  /\ \A i \in 1..Len(name) : name[i] \in Letters \cup Digits

\* throws unless the regular expression matches
validateTableName(tableName) == ValidIdentifier(tableName)

\* throws at the first column the regular expression does not match
validateColumnNames(columns) ==
  \A i \in 1..Len(columns) : ValidIdentifier(columns[i])

\* the column the loop of validateColumnNames throws at
FirstInvalid(columns) ==
  columns[CHOOSE i \in 1..Len(columns) :
            /\ ~ValidIdentifier(columns[i])
            /\ \A j \in 1..(i - 1) : ValidIdentifier(columns[j])]

\* a function that returns nothing has returned
Void == [status |-> "ok"]

\* the error of a validator, with the name its message quotes
Invalid(msg, name) == [status |-> "error", error |-> msg, name |-> name]

(***************************************************************************)
(* Reading a text back: the tokens between two marks, the pieces between   *)
(* separators.                                                             *)
(***************************************************************************)
\* the first position of token tok in text, 0 when it is not there
IndexOf(text, tok) ==
  IF \E i \in 1..Len(text) : text[i] = tok
  THEN CHOOSE i \in 1..Len(text) : text[i] = tok /\ \A j \in 1..(i - 1) : text[j] # tok
  ELSE 0

\* how many times token tok is in text
Count(text, tok) == Cardinality({i \in 1..Len(text) : text[i] = tok})

RECURSIVE SplitOn(_, _)
\* the pieces of text between the occurrences of token tok
SplitOn(text, tok) ==
  LET i == IndexOf(text, tok)
  IN  IF i = 0 THEN <<text>>
      ELSE <<SubSeq(text, 1, i - 1)>> \o SplitOn(SubSeq(text, i + 1, Len(text)), tok)

\* text from position i on
From(text, i) == SubSeq(text, i, Len(text))

\* s starts with prefix p
StartsWith(s, p) == Len(p) <= Len(s) /\ SubSeq(s, 1, Len(p)) = p

\* s ends with suffix p
EndsWith(s, p) == Len(p) <= Len(s) /\ SubSeq(s, Len(s) - Len(p) + 1, Len(s)) = p

Reverse(s) == [i \in 1..Len(s) |-> s[Len(s) + 1 - i]]

(***************************************************************************)
(* The simple builders.                                                    *)
(***************************************************************************)
\* the params array kept from one call to the next: a builder starts from
\* what the call before it returned
NewArray_Shared == IF ret.status = "ok" THEN ret.params ELSE << >>

\* const params: any[] = [], the array a builder starts from
NewArray == << >>

\* buildInsertQuery binding the values in the reverse of the column order
buildInsertQuery_ValuesReversed(tableName, data) ==
  LET columns == Keys(data)
      columnList == Join(QuotedList(columns), <<", ">>)
      placeholders == Join(Placeholders(Len(columns)), <<", ">>)
      sql == <<"INSERT INTO ">> \o Quoted(tableName) \o <<" (">> \o columnList
               \o <<") VALUES (">> \o placeholders \o <<")">>
  IN  Ok(sql, Reverse(Values(data)))

buildInsertQuery(tableName, data) ==
  LET columns == Keys(data)
      values == Values(data)
      columnList == Join(QuotedList(columns), <<", ">>)
      placeholders == Join(Placeholders(Len(columns)), <<", ">>)
      sql == <<"INSERT INTO ">> \o Quoted(tableName) \o <<" (">> \o columnList
               \o <<") VALUES (">> \o placeholders \o <<")">>
  IN  Ok(sql, values)

\* Object.keys(where).map(key => `"${key}" = ?`)
EqualityTests(keys) == [i \in 1..Len(keys) |-> Quoted(keys[i]) \o <<" = ", "?">>]

\* where && Object.keys(where).length > 0
HasEntries(where) == ~IsUndef(where) /\ Len(where.o) > 0

buildSelectQuery(tableName, columnsArg, where, orderBy, limit, offset) ==
  LET columns == IF IsUndef(columnsArg) THEN <<Star>> ELSE columnsArg.a
      columnList == IF \E i \in 1..Len(columns) : columns[i] = Star
                    THEN Star
                    ELSE Join(QuotedList(columns), <<", ">>)
      sql0 == <<"SELECT ">> \o columnList \o <<" FROM ">> \o Quoted(tableName)
      sql1 == IF HasEntries(where)
              THEN sql0 \o <<" WHERE ">>
                     \o Join(EqualityTests(Keys(where.o)), <<" AND ">>)
              ELSE sql0
      params1 == IF HasEntries(where) THEN NewArray \o Values(where.o) ELSE NewArray
      sql2 == IF Truthy(orderBy) THEN sql1 \o <<" ORDER BY ">> \o orderBy.s ELSE sql1
      sql3 == IF Truthy(limit) THEN sql2 \o <<" LIMIT ", "?">> ELSE sql2
      params3 == IF Truthy(limit) THEN Append(params1, limit) ELSE params1
      sql4 == IF Truthy(offset) THEN sql3 \o <<" OFFSET ", "?">> ELSE sql3
      params4 == IF Truthy(offset) THEN Append(params3, offset) ELSE params3
  IN  Ok(sql4, params4)

\* buildUpdateQuery binding the WHERE values before the update values
buildUpdateQuery_WhereFirst(tableName, updateData, where) ==
  LET setClause == Join(EqualityTests(Keys(updateData)), <<", ">>)
      sql0 == <<"UPDATE ">> \o Quoted(tableName) \o <<" SET ">> \o setClause
  IN  IF HasEntries(where)
      THEN Ok(sql0 \o <<" WHERE ">> \o Join(EqualityTests(Keys(where.o)), <<" AND ">>),
              Values(where.o) \o Values(updateData))
      ELSE Ok(sql0, Values(updateData))

buildUpdateQuery(tableName, updateData, where) ==
  LET updateColumns == Keys(updateData)
      updateValues == Values(updateData)
      setClause == Join(EqualityTests(updateColumns), <<", ">>)
      sql0 == <<"UPDATE ">> \o Quoted(tableName) \o <<" SET ">> \o setClause
      sql1 == IF HasEntries(where)
              THEN sql0 \o <<" WHERE ">>
                     \o Join(EqualityTests(Keys(where.o)), <<" AND ">>)
              ELSE sql0
      params1 == IF HasEntries(where)
                 THEN updateValues \o Values(where.o)
                 ELSE updateValues
  IN  Ok(sql1, params1)

\* buildDeleteQuery pushing the limit in front of the WHERE values
buildDeleteQuery_LimitFirst(tableName, where, limit) ==
  LET sql0 == <<"DELETE FROM ">> \o Quoted(tableName)
      sql1 == IF HasEntries(where)
              THEN sql0 \o <<" WHERE ">>
                     \o Join(EqualityTests(Keys(where.o)), <<" AND ">>)
              ELSE sql0
      params1 == IF HasEntries(where) THEN Values(where.o) ELSE << >>
  IN  IF Truthy(limit)
      THEN Ok(sql1 \o <<" LIMIT ", "?">>, <<limit>> \o params1)
      ELSE Ok(sql1, params1)

buildDeleteQuery(tableName, where, limit) ==
  LET sql0 == <<"DELETE FROM ">> \o Quoted(tableName)
      sql1 == IF HasEntries(where)
              THEN sql0 \o <<" WHERE ">>
                     \o Join(EqualityTests(Keys(where.o)), <<" AND ">>)
              ELSE sql0
      params1 == IF HasEntries(where) THEN NewArray \o Values(where.o) ELSE NewArray
      sql2 == IF Truthy(limit) THEN sql1 \o <<" LIMIT ", "?">> ELSE sql1
      params2 == IF Truthy(limit) THEN Append(params1, limit) ELSE params1
  IN  Ok(sql2, params2)

(***************************************************************************)
(* CREATE TABLE.                                                           *)
(***************************************************************************)
RECURSIVE EscapeQuotes(_)
\* s.replace(/'/g, "''")
EscapeQuotes(s) ==
  IF s = << >> THEN << >>
  ELSE (IF Head(s) = "'" THEN <<"'", "'">> ELSE <<Head(s)>>) \o EscapeQuotes(Tail(s))

\* the definition of one column, lines 359-384
ColumnDefinition(column) ==
  LET def0 == Quoted(column.name) \o <<" ">> \o column.type
      def1 == IF column.primaryKey /\ column.autoIncrement /\ column.type = <<"INTEGER">>
              THEN Quoted(column.name) \o <<" ", "INTEGER", " PRIMARY KEY", " AUTOINCREMENT">>
              ELSE def0
      def2 == IF column.notNull /\ ~column.primaryKey THEN def1 \o <<" NOT NULL">> ELSE def1
      def3 == IF column.unique /\ ~column.primaryKey THEN def2 \o <<" UNIQUE">> ELSE def2
      d == column.defaultValue
  IN  IF IsUndef(d) THEN def3
      ELSE IF IsStr(d) THEN def3 \o <<" DEFAULT ", "'">> \o EscapeQuotes(d.s) \o <<"'">>
      ELSE IF IsNull(d) THEN def3 \o <<" DEFAULT NULL">>
      ELSE def3 \o <<" DEFAULT ">> \o Interpolate(d)

\* the quoted names of the columns marked primaryKey, in column order
PrimaryKeys(columns) ==
  LET idx == {i \in 1..Len(columns) : columns[i].primaryKey}
      RECURSIVE Pick(_)
      Pick(i) == IF i > Len(columns) THEN << >>
                 ELSE (IF i \in idx THEN <<Quoted(columns[i].name)>> ELSE << >>)
                        \o Pick(i + 1)
  IN  Pick(1)

buildCreateTableSQL(tableName, columns, options) ==
  IF ~validateTableName(tableName) THEN Threw("Invalid table name")
  ELSE
    LET columnDefs == [i \in 1..Len(columns) |-> ColumnDefinition(columns[i])]
        primaryKeys == PrimaryKeys(columns)
        columnDefinitions ==
          IF Len(primaryKeys) > 1
          THEN Append(columnDefs,
                      <<"PRIMARY KEY (">> \o Join(primaryKeys, <<", ">>) \o <<")">>)
          ELSE columnDefs
        sql0 == <<"CREATE TABLE ">>
                  \o (IF options.ifNotExists THEN <<"IF NOT EXISTS ">> ELSE << >>)
        sql1 == sql0 \o Quoted(tableName) \o <<" (">>
                  \o Join(columnDefinitions, <<", ">>) \o <<")">>
        sql2 == IF options.withoutRowId THEN sql1 \o <<" WITHOUT ROWID">> ELSE sql1
        sql3 == IF options.strict THEN sql2 \o <<" STRICT">> ELSE sql2
    IN  Ok(sql3, << >>)

(***************************************************************************)
(* The condition compiler and the query builder.                           *)
(***************************************************************************)
\* ConditionClause pushing the upper bound of BETWEEN before the lower one
ConditionClause_BoundsSwapped(condition) ==
  LET field == Quoted(condition.field)
      op == condition.operator
  IN  CASE op \in {"IS NULL", "IS NOT NULL"} ->
             [text |-> field \o <<" ", op>>, params |-> << >>]
        [] op \in {"IN", "NOT IN"} /\ IsArray(condition.value) ->
             [text |-> field \o <<" ", op, " (">>
                         \o Join(Placeholders(Len(condition.value.a)), <<", ">>) \o <<")">>,
              params |-> condition.value.a]
        [] op \in {"IN", "NOT IN"} /\ ~IsArray(condition.value) ->
             [text |-> field, params |-> << >>]
        [] op = "BETWEEN" ->
             [text |-> field \o <<" BETWEEN ", "?", " AND ", "?">>,
              params |-> <<condition.value2, condition.value>>]
        [] OTHER ->
             [text |-> field \o <<" ", op, " ", "?">>, params |-> <<condition.value>>]

\* the fragment of one condition and the values it pushes, lines 480-504
ConditionClause(condition) ==
  LET field == Quoted(condition.field)
      op == condition.operator
  IN  CASE op = "IS NULL" ->
             [text |-> field \o <<" IS NULL">>, params |-> << >>]
        [] op = "IS NOT NULL" ->
             [text |-> field \o <<" IS NOT NULL">>, params |-> << >>]
        [] op \in {"IN", "NOT IN"} ->
             IF IsArray(condition.value)
             THEN [text |-> field \o <<" ", op, " (">>
                              \o Join(Placeholders(Len(condition.value.a)), <<", ">>)
                              \o <<")">>,
                   params |-> condition.value.a]
             ELSE [text |-> field, params |-> << >>]
        [] op = "BETWEEN" ->
             [text |-> field \o <<" BETWEEN ", "?", " AND ", "?">>,
              params |-> <<condition.value, condition.value2>>]
        [] OTHER ->
             [text |-> field \o <<" ", op, " ", "?">>, params |-> <<condition.value>>]

RECURSIVE Flatten(_)
\* the concatenation of a sequence of sequences
Flatten(ss) == IF ss = << >> THEN << >> ELSE Head(ss) \o Flatten(Tail(ss))

\* returns the joined clauses; params is the caller's array after the pushes
buildWhereClause(conditions, params, logic) ==
  LET clauses == [i \in 1..Len(conditions) |-> ConditionClause(conditions[i]).text]
      pushed == [i \in 1..Len(conditions) |-> ConditionClause(conditions[i]).params]
  IN  [text |-> Join(clauses, <<" ">> \o logic \o <<" ">>),
       params |-> params \o Flatten(pushed)]

\* x && x.length > 0
NonEmpty(x) == ~IsUndef(x) /\ Len(x.a) > 0

\* orderBy.map(o => `"${o.field}" ${o.direction}`)
OrderClauses(orderBy) ==
  [i \in 1..Len(orderBy) |-> Quoted(orderBy[i].field) \o <<" ", orderBy[i].direction>>]

RECURSIVE JoinClauses_Reversed(_)
\* JoinClauses emitting the joins from the last to the first
JoinClauses_Reversed(joins) ==
  IF joins = << >> THEN << >>
  ELSE JoinClauses_Reversed(Tail(joins))
         \o <<" ", Head(joins).type, " JOIN ">> \o Quoted(Head(joins).table)
         \o <<" ON ">> \o Head(joins).on

\* the JOIN clauses, lines 426-430
RECURSIVE JoinClauses(_)
JoinClauses(joins) ==
  IF joins = << >> THEN << >>
  ELSE <<" ", Head(joins).type, " JOIN ">> \o Quoted(Head(joins).table)
         \o <<" ON ">> \o Head(joins).on \o JoinClauses(Tail(joins))

buildQueryFromBuilder(builder) ==
  LET columns == IF NonEmpty(builder.columns)
                 THEN Join(QuotedList(builder.columns.a), <<", ">>)
                 ELSE Star
      sql0 == <<"SELECT ">> \o columns \o <<" FROM ">> \o Quoted(builder.table)
      sql1 == IF NonEmpty(builder.joins) THEN sql0 \o JoinClauses(builder.joins.a) ELSE sql0
      where == IF NonEmpty(builder.where)
               THEN buildWhereClause(builder.where.a, NewArray,
                      IF Truthy(builder.whereLogic) THEN builder.whereLogic.s ELSE <<"AND">>)
               ELSE [text |-> << >>, params |-> NewArray]
      sql2 == IF where.text # << >> THEN sql1 \o <<" WHERE ">> \o where.text ELSE sql1
      sql3 == IF NonEmpty(builder.groupBy)
              THEN sql2 \o <<" GROUP BY ">> \o Join(QuotedList(builder.groupBy.a), <<", ">>)
              ELSE sql2
      having == IF NonEmpty(builder.having)
                THEN buildWhereClause(builder.having.a, where.params, <<"AND">>)
                ELSE [text |-> << >>, params |-> where.params]
      sql4 == IF having.text # << >> THEN sql3 \o <<" HAVING ">> \o having.text ELSE sql3
      sql5 == IF NonEmpty(builder.orderBy)
              THEN sql4 \o <<" ORDER BY ">> \o Join(OrderClauses(builder.orderBy.a), <<", ">>)
              ELSE sql4
      sql6 == IF ~IsUndef(builder.limit) THEN sql5 \o <<" LIMIT ", "?">> ELSE sql5
      params6 == IF ~IsUndef(builder.limit)
                 THEN Append(having.params, builder.limit) ELSE having.params
      sql7 == IF ~IsUndef(builder.offset) THEN sql6 \o <<" OFFSET ", "?">> ELSE sql6
      params7 == IF ~IsUndef(builder.offset)
                 THEN Append(params6, builder.offset) ELSE params6
  IN  Ok(sql7, params7)

buildAggregateQuery(query) ==
  LET fn == query.function
      plain == IF fn = "COUNT" /\ ~Truthy(query.column)
               THEN <<"SELECT ", "COUNT(*)">>
               ELSE <<"SELECT ", fn, "(">> \o Quoted(Interpolate(query.column)) \o <<")">>
      grouped == <<"SELECT ">> \o Join(QuotedList(query.groupBy.a), <<", ">>)
                   \o <<", ", fn, "(">>
                   \o (IF Truthy(query.column)
                       THEN Quoted(Interpolate(query.column)) \o <<")">>
                       ELSE <<"*)">>)
      sql0 == IF NonEmpty(query.groupBy) THEN grouped ELSE plain
      sql1 == sql0 \o <<" FROM ">> \o Quoted(query.table)
      where == IF NonEmpty(query.where)
               THEN buildWhereClause(query.where.a, NewArray, <<"AND">>)
               ELSE [text |-> << >>, params |-> NewArray]
      sql2 == IF where.text # << >> THEN sql1 \o <<" WHERE ">> \o where.text ELSE sql1
      sql3 == IF NonEmpty(query.groupBy)
              THEN sql2 \o <<" GROUP BY ">> \o Join(QuotedList(query.groupBy.a), <<", ">>)
              ELSE sql2
      having == IF NonEmpty(query.having)
                THEN buildWhereClause(query.having.a, where.params, <<"AND">>)
                ELSE [text |-> << >>, params |-> where.params]
      sql4 == IF having.text # << >> THEN sql3 \o <<" HAVING ">> \o having.text ELSE sql3
      sql5 == IF NonEmpty(query.orderBy)
              THEN sql4 \o <<" ORDER BY ">> \o Join(OrderClauses(query.orderBy.a), <<", ">>)
              ELSE sql4
  IN  Ok(sql5, having.params)

(***************************************************************************)
(* The table operations of the node's execute(), for one input item: the   *)
(* statement each builds and hands to executeQuery, or the error raised    *)
(* before that.                                                            *)
(***************************************************************************)
\* findOperator and the operator of a WHERE condition, as interpolated
OperatorText(op) == <<" ", op>>

\* the WHERE clause and params of Find Record, lines 1782-1803
FindWhere(findColumn, findOperator, findValue) ==
  IF findOperator \in {"IS NULL", "IS NOT NULL"}
  THEN [text |-> Quoted(findColumn) \o OperatorText(findOperator), params |-> << >>]
  ELSE IF findOperator \in {"IN", "NOT IN"}
  THEN LET values == SplitTrim(findValue.s)
       IN  [text |-> Quoted(findColumn) \o OperatorText(findOperator) \o <<" (">>
                       \o Join(Placeholders(Len(values)), <<", ">>) \o <<")">>,
            params |-> values]
  ELSE IF findOperator \in {"LIKE", "NOT LIKE"}
  THEN LET searchValue == IF ~Includes(findValue.s, "%")
                          THEN Str(<<"%">> \o findValue.s \o <<"%">>)
                          ELSE findValue
       IN  [text |-> Quoted(findColumn) \o OperatorText(findOperator) \o <<" ", "?">>,
            params |-> <<searchValue>>]
  ELSE [text |-> Quoted(findColumn) \o OperatorText(findOperator) \o <<" ", "?">>,
        params |-> <<findValue>>]

ExecuteFindRecord(tableName, findColumn, findOperator, findValue, findOptions) ==
  IF ~validateTableName(tableName) THEN Threw("Invalid table name")
  ELSE
    LET findLatest == findOptions.findLatest
        findLimit == IF Truthy(findOptions.findLimit) THEN findOptions.findLimit ELSE Num(1)
        where == FindWhere(findColumn, findOperator, findValue)
        sql0 == <<"SELECT ", "*", " FROM ">> \o Quoted(tableName) \o <<" WHERE ">>
                  \o where.text
        sql1 == IF findLatest THEN sql0 \o <<" ORDER BY rowid DESC">> ELSE sql0
        sql2 == sql1 \o <<" LIMIT ">> \o Interpolate(findLimit)
    IN  Ok(sql2, where.params)

RECURSIVE FieldsToObject(_, _)
\* for (const col of fields) data[col.name] = col.value, from the object obj on
FieldsToObject(fields, obj) ==
  IF fields = << >> THEN obj
  ELSE FieldsToObject(Tail(fields), ObjSet(obj, Head(fields).name, Head(fields).value))

ExecuteInsert(tableName, columnValues) ==
  IF ~validateTableName(tableName) THEN Threw("Invalid table name")
  ELSE IF Len(columnValues) = 0
  THEN Threw("At least one column must be specified for insert")
  ELSE IF \E i \in 1..Len(columnValues) : columnValues[i].name = << >>
  THEN Threw("Column name cannot be empty")
  ELSE buildInsertQuery(tableName, FieldsToObject(columnValues, << >>))

\* one WHERE condition of Select, lines 1868-1888: its fragments and params
SelectCondition(condition) ==
  LET column == Quoted(condition.column)
      op == condition.operator
  IN  IF op \in {"IS NULL", "IS NOT NULL"}
      THEN [clauses |-> <<column \o OperatorText(op)>>, params |-> << >>]
      ELSE IF op \in {"IN", "NOT IN"}
      THEN LET values == IF IsUndef(condition.value) THEN << >>
                         ELSE SplitTrim(condition.value.s)
           IN  IF Len(values) > 0
               THEN [clauses |-> <<column \o OperatorText(op) \o <<" (">>
                                    \o Join(Placeholders(Len(values)), <<", ">>) \o <<")">>>>,
                     params |-> values]
               ELSE [clauses |-> << >>, params |-> << >>]
      ELSE IF op \in {"LIKE", "NOT LIKE"}
      THEN LET searchValue ==
                 IF op = "LIKE" /\ ~(IsStr(condition.value) /\ Includes(condition.value.s, "%"))
                 THEN Str(<<"%">> \o Interpolate(condition.value) \o <<"%">>)
                 ELSE condition.value
           IN  [clauses |-> <<column \o OperatorText(op) \o <<" ", "?">>>>,
                params |-> <<searchValue>>]
      ELSE IF ~IsUndef(condition.value) /\ condition.value # Str(<< >>)
      THEN [clauses |-> <<column \o OperatorText(op) \o <<" ", "?">>>>,
            params |-> <<condition.value>>]
      ELSE [clauses |-> << >>, params |-> << >>]

\* one WHERE condition of Update and of Delete, lines 1947-1962 and 2006-2021
ModifyCondition(condition) ==
  LET column == Quoted(condition.column)
      op == condition.operator
  IN  IF op \in {"IS NULL", "IS NOT NULL"}
      THEN [clauses |-> <<column \o OperatorText(op)>>, params |-> << >>]
      ELSE IF op = "IN"
      THEN LET values == IF IsUndef(condition.value) THEN << >>
                         ELSE SplitTrim(condition.value.s)
           IN  IF Len(values) > 0
               THEN [clauses |-> <<column \o OperatorText(op) \o <<" (">>
                                    \o Join(Placeholders(Len(values)), <<", ">>) \o <<")">>>>,
                     params |-> values]
               ELSE [clauses |-> << >>, params |-> << >>]
      ELSE IF op = "LIKE"
      THEN [clauses |-> <<column \o OperatorText(op) \o <<" ", "?">>>>,
            params |-> <<condition.value>>]
      ELSE IF ~IsUndef(condition.value) /\ condition.value # Str(<< >>)
      THEN [clauses |-> <<column \o OperatorText(op) \o <<" ", "?">>>>,
            params |-> <<condition.value>>]
      ELSE [clauses |-> << >>, params |-> << >>]

\* the conditions and whereParams arrays after the loop over the conditions
SelectWhere(whereConditions) ==
  LET each == [i \in 1..Len(whereConditions) |-> SelectCondition(whereConditions[i])]
  IN  [clauses |-> Flatten([i \in 1..Len(each) |-> each[i].clauses]),
       params |-> Flatten([i \in 1..Len(each) |-> each[i].params])]

ModifyWhere(whereConditions) ==
  LET each == [i \in 1..Len(whereConditions) |-> ModifyCondition(whereConditions[i])]
  IN  [clauses |-> Flatten([i \in 1..Len(each) |-> each[i].clauses]),
       params |-> Flatten([i \in 1..Len(each) |-> each[i].params])]

\* orderByConditions.map(order => `"${order.column}" ${order.direction}`)
SortClauses(sort) ==
  [i \in 1..Len(sort) |-> Quoted(sort[i].column) \o <<" ", sort[i].direction>>]

\* limit is undefined when returnAll is set
ExecuteSelect(tableName, limit, columns, whereConditions, orderByConditions) ==
  IF ~validateTableName(tableName) THEN Threw("Invalid table name")
  ELSE
    LET where == SelectWhere(whereConditions)
        whereSql == IF Len(where.clauses) > 0
                    THEN <<" WHERE ">> \o Join(where.clauses, <<" AND ">>)
                    ELSE << >>
        selectColumns == IF Len(columns) > 0 THEN columns ELSE <<Star>>
        columnList == IF \E i \in 1..Len(selectColumns) : selectColumns[i] = Star
                      THEN Star
                      ELSE Join(QuotedList(selectColumns), <<", ">>)
        sql0 == <<"SELECT ">> \o columnList \o <<" FROM ">> \o Quoted(tableName) \o whereSql
        sql1 == IF Len(orderByConditions) > 0
                THEN sql0 \o <<" ORDER BY ">> \o Join(SortClauses(orderByConditions), <<", ">>)
                ELSE sql0
        sql2 == IF Truthy(limit) THEN sql1 \o <<" LIMIT ">> \o Interpolate(limit) ELSE sql1
    IN  Ok(sql2, where.params)

ExecuteUpdate(tableName, updateFields, whereUpdateConditions) ==
  IF ~validateTableName(tableName) THEN Threw("Invalid table name")
  ELSE IF Len(updateFields) = 0
  THEN Threw("At least one column must be specified for update")
  ELSE IF \E i \in 1..Len(updateFields) : updateFields[i].name = << >>
  THEN Threw("Column name cannot be empty")
  ELSE
    LET updateData == FieldsToObject(updateFields, << >>)
        where == ModifyWhere(whereUpdateConditions)
        whereUpdateSql == Join(where.clauses, <<" AND ">>)
        setClause == Join(EqualityTests(Keys(updateData)), <<", ">>)
        sql0 == <<"UPDATE ">> \o Quoted(tableName) \o <<" SET ">> \o setClause
    IN  IF whereUpdateSql # << >>
        THEN Ok(sql0 \o <<" WHERE ">> \o whereUpdateSql, Values(updateData) \o where.params)
        ELSE Ok(sql0, Values(updateData))

ExecuteDelete(tableName, whereDeleteConditions, deleteLimit) ==
  IF ~validateTableName(tableName) THEN Threw("Invalid table name")
  ELSE
    LET where == ModifyWhere(whereDeleteConditions)
        whereDeleteSql == Join(where.clauses, <<" AND ">>)
        sql0 == <<"DELETE FROM ">> \o Quoted(tableName)
        sql1 == IF whereDeleteSql # << >> THEN sql0 \o <<" WHERE ">> \o whereDeleteSql ELSE sql0
        sql2 == IF Truthy(deleteLimit)
                THEN sql1 \o <<" LIMIT ">> \o Interpolate(deleteLimit) ELSE sql1
    IN  Ok(sql2, where.params)

\* Drop Table of the tableManagement resource, lines 2165-2173
ExecuteDropTable(dropTableName, dropIfExists) ==
  IF dropIfExists
  THEN Ok(<<"DROP TABLE IF EXISTS ">> \o Quoted(dropTableName), << >>)
  ELSE Ok(<<"DROP TABLE ">> \o Quoted(dropTableName), << >>)

\* cond.value?.split(',').map(v => v.trim()) for IN and NOT IN, lines 2204-2210
BuilderCondition(cond) ==
  [field |-> cond.field, operator |-> cond.operator,
   value |-> IF cond.operator \in {"IN", "NOT IN"}
             THEN (IF IsStr(cond.value)
                   THEN Arr([i \in 1..Len(SplitTrim(cond.value.s)) |->
                               SplitTrim(cond.value.s)[i]])
                   ELSE Undef)
             ELSE cond.value,
   value2 |-> cond.value2]

\* Query Builder of the builder resource, lines 2194-2220
ExecuteQueryBuilder(tableName, queryColumns, whereConditions, orderBy, builderLimit, builderOffset) ==
  buildQueryFromBuilder(
    [table |-> tableName,
     columns |-> IF Len(queryColumns) > 0 THEN Arr(queryColumns) ELSE Undef,
     joins |-> Undef,
     where |-> Arr([i \in 1..Len(whereConditions) |-> BuilderCondition(whereConditions[i])]),
     whereLogic |-> Undef,
     groupBy |-> Undef,
     having |-> Undef,
     orderBy |-> Arr([i \in 1..Len(orderBy) |->
                        [field |-> orderBy[i].field, direction |-> orderBy[i].direction]]),
     limit |-> IF Truthy(builderLimit) THEN builderLimit ELSE Undef,
     offset |-> IF Truthy(builderOffset) THEN builderOffset ELSE Undef])

\* the request executeQuery sends for a built statement: none after an error
Requests(r) == IF r.status = "ok" THEN <<[sql |-> r.sql, params |-> r.params]>> ELSE << >>

(***************************************************************************)
(* Inputs.                                                                 *)
(***************************************************************************)
\* candidate table names: valid, starting with a digit, holding a quote
TableNames == {<<"t">>, <<"1", "t">>, <<"t", "\"">>}

\* candidate column names: two valid ones, one starting with a digit, one
\* holding characters outside [A-Za-z0-9_]
ColumnNames == {<<"a">>, <<"b">>, <<"1", "a">>, <<"a", "\"", "?">>}

Scalars == {Str(<<"x">>), Str(<<"y">>)}

RECURSIVE SeqsUpTo(_, _)
\* the sequences over S of length at most n
SeqsUpTo(S, n) ==
  IF n = 0 THEN {<< >>}
  ELSE LET shorter == SeqsUpTo(S, n - 1)
       IN  shorter \cup {Append(s, x) : s \in shorter, x \in S}

Pairs(K, V) == {[k |-> k, v |-> v] : k \in K, v \in V}

\* the objects with at most n keys from K and values from V
Objects(K, V, n) == {o \in SeqsUpTo(Pairs(K, V), n) : IsObjectOrder(o)}

\* the insert and update maps
DataMaps == Objects(ColumnNames, Scalars, MaxCols)

\* an optional where map: undefined, or an object
WhereMaps == {Undef} \cup {Obj(o) : o \in Objects(ColumnNames, Scalars, MaxWhere)}

\* an optional column list: undefined, or an array of names
ColumnLists == {Undef, Arr(<<Star>>), Arr(<<<<"a">>>>), Arr(<<<<"a">>, <<"1", "a">>>>)}

\* an optional ORDER BY text
OrderTexts == {Undef, Str(<<"a">>)}

\* an optional limit or offset: undefined, or a non-negative integer
Amounts == {Undef} \cup {Num(n) : n \in 0..MaxAmount}

\* the operators of a condition (D1WhereOperator)
Operators == {"=", "!=", ">", "<", ">=", "<=", "LIKE", "NOT LIKE", "IN", "NOT IN",
              "IS NULL", "IS NOT NULL", "BETWEEN"}

\* the directions of an ORDER BY entry
Directions == {"ASC", "DESC"}

\* the aggregate functions (D1AggregateFunction)
AggregateFunctions == {"COUNT", "SUM", "AVG", "MIN", "MAX", "GROUP_CONCAT"}

Cond(f, op, v, v2) == [field |-> f, operator |-> op, value |-> v, value2 |-> v2]

X == Str(<<"x">>)
Y == Str(<<"y">>)
Z == Str(<<"z">>)

\* conditions: every operator (and one outside the enumeration) with a scalar
\* value and no value2, the list operators with arrays of length 0, 1 and 2,
\* BETWEEN with and without its bounds, valid and invalid field names
Conditions ==
  {Cond(<<"a">>, op, X, Undef) : op \in Operators \cup {"~"}}
    \cup {Cond(<<"a">>, op, Arr(<<X, Y>>), Undef) : op \in {"IN", "NOT IN", "="}}
    \cup {Cond(<<"a">>, "IN", Arr(<< >>), Undef), Cond(<<"b">>, "NOT IN", Arr(<<Y>>), Undef),
          Cond(<<"b">>, "BETWEEN", X, Z), Cond(<<"b">>, "BETWEEN", Undef, Undef),
          Cond(<<"b">>, "IS NULL", Undef, Undef), Cond(<<"b">>, "=", Undef, Undef),
          Cond(<<"b">>, "IN", Undef, Undef),
          Cond(<<"1", "a">>, "=", Y, Undef), Cond(<<"a", "\"", "?">>, "IS NOT NULL", Undef, Undef)}

ConditionLists == SeqsUpTo(Conditions, MaxConds)

\* the join logic: absent, or one of the two tokens
Logics == {Undef, Str(<<"AND">>), Str(<<"OR">>)}

\* the where and having lists of a query descriptor
QueryConditions ==
  {Undef,
   Arr(<<Cond(<<"a">>, "=", X, Undef)>>),
   Arr(<<Cond(<<"a">>, "IN", Arr(<<X, Y>>), Undef), Cond(<<"b">>, "BETWEEN", Y, Z)>>),
   Arr(<<Cond(<<"b">>, "IS NULL", Undef, Undef), Cond(<<"1", "a">>, "LIKE", Y, Undef)>>)}

HavingConditions == {Undef, Arr(<<Cond(<<"b">>, ">", Z, Undef)>>)}

InnerJoin == [type |-> "INNER", table |-> <<"u">>, on |-> <<"t.a = u.a">>]
LeftJoin == [type |-> "LEFT", table |-> <<"1", "t">>, on |-> <<"1 = 1">>]

JoinLists == {Undef, Arr(<<InnerJoin>>), Arr(<<InnerJoin, LeftJoin>>), Arr(<<LeftJoin, InnerJoin>>)}

GroupLists == {Undef, Arr(<<<<"a">>>>), Arr(<<<<"b">>, <<"1", "a">>>>)}

OrderLists ==
  {Undef,
   Arr(<<[field |-> <<"a">>, direction |-> "ASC"]>>),
   Arr(<<[field |-> <<"b">>, direction |-> "DESC"], [field |-> <<"1", "a">>, direction |-> "UP"]>>)}

QueryColumns == {Undef, Arr(<<<<"a">>, <<"1", "a">>>>)}

QueryBuilders ==
  [table : {<<"t">>, <<"1", "t">>}, columns : QueryColumns, joins : JoinLists,
   where : QueryConditions, whereLogic : Logics, groupBy : GroupLists,
   having : HavingConditions, orderBy : OrderLists, limit : Amounts, offset : Amounts]

AggregateQueries ==
  [table : {<<"t">>, <<"1", "t">>}, function : {"COUNT", "SUM", "MEDIAN"},
   column : {Undef, Str(<<"a">>), Str(<<"1", "a">>)}, where : QueryConditions,
   groupBy : GroupLists, having : HavingConditions, orderBy : OrderLists]

\* column specifications: every combination of the four flags on the two
\* types, and some with a default value or a name that is no identifier
ColumnTypes == {<<"INTEGER">>, <<"TEXT">>}

ColumnSpec(n, ty, pk, ai, nn, uq, d) ==
  [name |-> n, type |-> ty, primaryKey |-> pk, autoIncrement |-> ai, notNull |-> nn,
   unique |-> uq, defaultValue |-> d]

\* the name of the i-th column of a table
PositionNames == <<"a", "b", "c", "d">>

ColumnSpecsAt(i) ==
  {ColumnSpec(<<PositionNames[i]>>, ty, pk, ai, nn, uq, Undef) :
     ty \in ColumnTypes, pk \in BOOLEAN, ai \in BOOLEAN, nn \in BOOLEAN, uq \in BOOLEAN}
    \cup {ColumnSpec(<<"1", "a">>, <<"TEXT">>, TRUE, FALSE, FALSE, FALSE, Str(<<"d", "'">>)),
          ColumnSpec(<<PositionNames[i]>>, <<"INTEGER">>, FALSE, FALSE, TRUE, FALSE, Num(0)),
          ColumnSpec(<<PositionNames[i]>>, <<"TEXT">>, FALSE, FALSE, FALSE, TRUE, Null)}

RECURSIVE ColumnSpecLists(_)
\* the column lists of length at most n
ColumnSpecLists(n) ==
  IF n = 0 THEN {<< >>}
  ELSE LET shorter == ColumnSpecLists(n - 1)
       IN  shorter \cup {Append(s, c) : s \in {l \in shorter : Len(l) = n - 1},
                                         c \in ColumnSpecsAt(n)}

TableColumns == ColumnSpecLists(MaxColumns)

CreateTableOptions ==
  {[ifNotExists |-> FALSE, withoutRowId |-> FALSE, strict |-> FALSE],
   [ifNotExists |-> TRUE, withoutRowId |-> FALSE, strict |-> TRUE],
   [ifNotExists |-> TRUE, withoutRowId |-> TRUE, strict |-> FALSE]}

\* the values of the node's string parameters
NodeStrings ==
  {Str(<< >>), Str(<<"x">>), Str(<<"y">>), Str(<<"x", ",", " ", "y">>), Str(<<"%", "x">>)}

\* the options of findOperator and of a condition's operator
NodeOperators == Operators \ {"BETWEEN"}

\* a limit of the node: absent, or a positive number
NodeAmounts == {Undef} \cup {Num(n) : n \in 1..MaxAmount}

NodeCond(c, op, v) == [column |-> c, operator |-> op, value |-> v]

\* WHERE conditions of Select, Update and Delete
NodeConditions ==
  {NodeCond(<<"a">>, "=", v) : v \in {Undef, Str(<< >>), X, Y}}
    \cup {NodeCond(<<"a">>, op, Str(<<"x", ",", " ", "y">>)) : op \in {"IN", "NOT IN"}}
    \cup {NodeCond(<<"b">>, op, v) : op \in {"LIKE", "NOT LIKE"}, v \in {X, Str(<<"%", "x">>)}}
    \cup {NodeCond(<<"b">>, "IN", Undef), NodeCond(<<"b">>, "IS NULL", Str(<< >>)),
          NodeCond(<<"a", "\"", "?">>, ">", Y)}

NodeConditionLists == SeqsUpTo(NodeConditions, MaxWhere)

Field(n, v) == [name |-> n, value |-> v]

\* the column/value pairs of Insert and Update: none, one, two, a repeated
\* name, an index-like name, an empty name, a name that is no identifier
NodeFieldLists ==
  {<< >>, <<Field(<<"a">>, X)>>, <<Field(<<"a">>, Y)>>,
   <<Field(<<"a">>, X), Field(<<"b">>, Y)>>, <<Field(<<"a">>, Y), Field(<<"b">>, X)>>,
   <<Field(<<"a">>, X), Field(<<"b">>, Y), Field(<<"a">>, Z)>>,
   <<Field(<<"b">>, X), Field(<<"7">>, Y)>>, <<Field(<<"a">>, X), Field(<< >>, Y)>>,
   <<Field(<<"a", "\"", "?">>, X)>>}

NodeSortLists == {<< >>, <<[column |-> <<"a">>, direction |-> "DESC"]>>}

NodeColumnLists == {<< >>, <<<<"a">>, <<"b">>>>}

FindOptions == [findLatest : BOOLEAN, findLimit : NodeAmounts]

\* candidate names: every string of at most MaxName characters over a letter
\* of each case, the underscore, a digit, a hyphen and a space
NameCharacters == {"a", "Z", "_", "1", "-", " "}

CandidateNames == SeqsUpTo(NameCharacters, MaxName)

\* candidate column lists
CandidateColumns ==
  SeqsUpTo({<<"a">>, <<"_", "1">>, <<"1", "a">>, << >>, <<"a", "-">>}, MaxCols)

\* the conditions of the node's Query Builder: value is the text of the field
BuilderConditionLists ==
  {<< >>,
   <<Cond(<<"a">>, "=", X, Undef)>>,
   <<Cond(<<"a", "\"", "?">>, "IN", Str(<<"x", ",", " ", "y">>), Undef)>>,
   <<Cond(<<"a">>, "NOT IN", Undef, Undef), Cond(<<"b">>, "BETWEEN", X, Z)>>}

BuilderSortLists == {<< >>, <<[field |-> <<"a">>, direction |-> "DESC"]>>}

\* builderLimit and builderOffset: numbers, 0 by default
BuilderAmounts == {Num(n) : n \in 0..MaxAmount}

(***************************************************************************)
(* Actions: one call of a builder, and its return to the caller.           *)
(***************************************************************************)
Ready == call.fn = "none"

BuildInsert ==
  /\ Ready
  /\ \E t \in TableNames, d \in DataMaps :
       /\ call' = [fn |-> "buildInsertQuery", table |-> t, data |-> d]
       /\ ret' = buildInsertQuery(t, d)
       /\ UNCHANGED <<http, earlier, chat, run>>

BuildSelect ==
  /\ Ready
  /\ \E t \in TableNames, c \in ColumnLists, w \in WhereMaps, o \in OrderTexts,
        l \in Amounts, f \in Amounts :
       /\ call' = [fn |-> "buildSelectQuery", table |-> t, columns |-> c, where |-> w,
                   orderBy |-> o, limit |-> l, offset |-> f]
       /\ ret' = buildSelectQuery(t, c, w, o, l, f)
       /\ UNCHANGED <<http, earlier, chat, run>>

BuildUpdate ==
  /\ Ready
  /\ \E t \in TableNames, d \in DataMaps, w \in WhereMaps :
       /\ call' = [fn |-> "buildUpdateQuery", table |-> t, data |-> d, where |-> w]
       /\ ret' = buildUpdateQuery(t, d, w)
       /\ UNCHANGED <<http, earlier, chat, run>>

BuildDelete ==
  /\ Ready
  /\ \E t \in TableNames, w \in WhereMaps, l \in Amounts :
       /\ call' = [fn |-> "buildDeleteQuery", table |-> t, where |-> w, limit |-> l]
       /\ ret' = buildDeleteQuery(t, w, l)
       /\ UNCHANGED <<http, earlier, chat, run>>

BuildCreateTable ==
  /\ Ready
  /\ \E t \in {<<"t">>, <<"1", "t">>}, c \in TableColumns, o \in CreateTableOptions :
       /\ call' = [fn |-> "buildCreateTableSQL", table |-> t, columns |-> c, options |-> o]
       /\ ret' = buildCreateTableSQL(t, c, o)
       /\ UNCHANGED <<http, earlier, chat, run>>

BuildWhere ==
  /\ Ready
  /\ \E c \in ConditionLists, l \in {<<"AND">>, <<"OR">>} :
       /\ call' = [fn |-> "buildWhereClause", conditions |-> c, logic |-> l]
       /\ ret' = LET r == buildWhereClause(c, << >>, l) IN Ok(r.text, r.params)
       /\ UNCHANGED <<http, earlier, chat, run>>

BuildQuery ==
  /\ Ready
  /\ \E b \in QueryBuilders :
       /\ call' = [fn |-> "buildQueryFromBuilder", builder |-> b]
       /\ ret' = buildQueryFromBuilder(b)
       /\ UNCHANGED <<http, earlier, chat, run>>

BuildAggregate ==
  /\ Ready
  /\ \E q \in AggregateQueries :
       /\ call' = [fn |-> "buildAggregateQuery", query |-> q]
       /\ ret' = buildAggregateQuery(q)
       /\ UNCHANGED <<http, earlier, chat, run>>

(***************************************************************************)
(* Actions: execute() on one item of the table resource, up to the request *)
(* it sends.                                                               *)
(***************************************************************************)
FindRecord ==
  /\ Ready
  /\ \E t \in TableNames, c \in {<<"a">>, <<"a", "\"", "?">>}, op \in NodeOperators,
        v \in NodeStrings, o \in FindOptions :
       /\ call' = [fn |-> "findRecord", table |-> t, findColumn |-> c, findOperator |-> op,
                   findValue |-> v, findOptions |-> o]
       /\ ret' = ExecuteFindRecord(t, c, op, v, o)
       /\ http' = Requests(ret')
       /\ UNCHANGED <<earlier, chat, run>>

InsertRow ==
  /\ Ready
  /\ \E t \in TableNames, f \in NodeFieldLists :
       /\ call' = [fn |-> "insert", table |-> t, columnValues |-> f]
       /\ ret' = ExecuteInsert(t, f)
       /\ http' = Requests(ret')
       /\ UNCHANGED <<earlier, chat, run>>

SelectRows ==
  /\ Ready
  /\ \E t \in TableNames, l \in NodeAmounts, c \in NodeColumnLists,
        w \in NodeConditionLists, o \in NodeSortLists :
       /\ call' = [fn |-> "select", table |-> t, limit |-> l, columns |-> c, where |-> w,
                   orderBy |-> o]
       /\ ret' = ExecuteSelect(t, l, c, w, o)
       /\ http' = Requests(ret')
       /\ UNCHANGED <<earlier, chat, run>>

UpdateRows ==
  /\ Ready
  /\ \E t \in TableNames, f \in NodeFieldLists, w \in NodeConditionLists :
       /\ call' = [fn |-> "update", table |-> t, updateFields |-> f, where |-> w]
       /\ ret' = ExecuteUpdate(t, f, w)
       /\ http' = Requests(ret')
       /\ UNCHANGED <<earlier, chat, run>>

DeleteRows ==
  /\ Ready
  /\ \E t \in TableNames, w \in NodeConditionLists, l \in NodeAmounts \cup {Str(<< >>)} :
       /\ call' = [fn |-> "delete", table |-> t, where |-> w, deleteLimit |-> l]
       /\ ret' = ExecuteDelete(t, w, l)
       /\ http' = Requests(ret')
       /\ UNCHANGED <<earlier, chat, run>>

ValidateTable ==
  /\ Ready
  /\ \E n \in CandidateNames :
       /\ call' = [fn |-> "validateTableName", table |-> n]
       /\ ret' = IF validateTableName(n) THEN Void ELSE Invalid("Invalid table name", n)
       /\ UNCHANGED <<http, earlier, chat, run>>

ValidateColumns ==
  /\ Ready
  /\ \E c \in CandidateColumns :
       /\ call' = [fn |-> "validateColumnNames", columns |-> c]
       /\ ret' = IF validateColumnNames(c) THEN Void
                 ELSE Invalid("Invalid column name", FirstInvalid(c))
       /\ UNCHANGED <<http, earlier, chat, run>>

DropTable ==
  /\ Ready
  /\ \E t \in TableNames, e \in BOOLEAN :
       /\ call' = [fn |-> "dropTable", table |-> t, dropIfExists |-> e]
       /\ ret' = ExecuteDropTable(t, e)
       /\ http' = Requests(ret')
       /\ UNCHANGED <<earlier, chat, run>>

QueryBuilder ==
  /\ Ready
  /\ \E t \in TableNames, c \in NodeColumnLists, w \in BuilderConditionLists,
        o \in BuilderSortLists, l \in BuilderAmounts, f \in BuilderAmounts :
       /\ call' = [fn |-> "queryBuilder", table |-> t, queryColumns |-> c, where |-> w,
                   orderBy |-> o, builderLimit |-> l, builderOffset |-> f]
       /\ ret' = ExecuteQueryBuilder(t, c, w, o, l, f)
       /\ http' = Requests(ret')
       /\ UNCHANGED <<earlier, chat, run>>

\* no call is remembered
NoEarlierCall == [call |-> [fn |-> "none"], ret |-> Idle, others |-> FALSE]

(***************************************************************************)
(* The chat memory: CloudflareD1Memory instances over the chat-memory      *)
(* table of one D1 database.  A row keeps its id, session_id, message_type *)
(* and timestamp; the time is counted in days, the unit of expirationDays. *)
(* A request either reaches the database and is applied, or fails and      *)
(* changes nothing; a statement on a table that does not exist fails.  The *)
(* operations of the memories do not overlap, and each takes less than a   *)
(* day.                                                                    *)
(***************************************************************************)
DefaultTableName == <<"chat_memory">>
DefaultMaxMessages == 100
DefaultExpirationDays == 30

Memories == {"m1", "m2"}

\* the fields supplyData gives each memory: two sessions, the first keeping
\* one message for one day
MemoryInput(m) ==
  IF m = "m1"
  THEN [sessionId |-> "s1", tableName |-> Undef, maxMessages |-> Num(1),
        expirationDays |-> Num(1), memoryKey |-> Undef, returnMessages |-> Undef,
        inputKey |-> Undef, outputKey |-> Undef]
  ELSE [sessionId |-> "s2", tableName |-> Str(DefaultTableName),
        maxMessages |-> Num(MaxKeep), expirationDays |-> Undef,
        memoryKey |-> Str("chat_history"), returnMessages |-> Bool(TRUE),
        inputKey |-> Str("topic"), outputKey |-> Str("reply")]

\* this.memoryConfig as the constructor sets it
MemoryConfig(fields) ==
  [sessionId |-> fields.sessionId,
   tableName |-> IF Truthy(fields.tableName) THEN fields.tableName.s ELSE DefaultTableName,
   maxMessages |-> IF Truthy(fields.maxMessages) THEN fields.maxMessages.n
                   ELSE DefaultMaxMessages,
   expirationDays |-> IF Truthy(fields.expirationDays) THEN fields.expirationDays.n
                      ELSE DefaultExpirationDays]

memoryConfig(m) == MemoryConfig(MemoryInput(m))

\* this.memoryKey = fields.memoryKey ?? 'history'
memoryKey(m) ==
  IF IsUndef(MemoryInput(m).memoryKey) THEN "history" ELSE MemoryInput(m).memoryKey.s

\* this.inputKey = fields.inputKey; this.outputKey = fields.outputKey
inputKey(m) == MemoryInput(m).inputKey
outputKey(m) == MemoryInput(m).outputKey

\* this.returnMessages = fields.returnMessages ?? false
returnMessages(m) ==
  IF IsUndef(MemoryInput(m).returnMessages) THEN FALSE ELSE MemoryInput(m).returnMessages.b

\* a memory after its constructor: this.config is not set, and no
\* ensureChatMemoryTable of the memory has succeeded
NewMemory == [config |-> FALSE, ensured |-> FALSE]

NewMemories == [m \in Memories |-> NewMemory]

\* the arguments of saveContext: nothing; both texts under common keys; an
\* input after a blank string and an empty array as the output; an empty
\* and a blank input with an output under another key
Contexts ==
  {[inputValues |-> << >>, outputValues |-> << >>],
   [inputValues |-> <<[k |-> "input", v |-> Str(<<"h", "i">>)]>>,
    outputValues |-> <<[k |-> "output", v |-> Str(<<"o", "k">>)]>>],
   [inputValues |-> <<[k |-> "note", v |-> Str(<<" ">>)],
                      [k |-> "topic", v |-> Str(<<"h", "i">>)]>>,
    outputValues |-> <<[k |-> "text", v |-> Arr(<< >>)]>>],
   [inputValues |-> <<[k |-> "input", v |-> Str(<< >>)],
                      [k |-> "note", v |-> Str(<<" ">>)]>>,
    outputValues |-> <<[k |-> "reply", v |-> Str(<<"o", "k">>)]>>]}

EmptyDatabase == [tables |-> {}, rows |-> {}, nextId |-> 1]

Query(sql, params) == [sql |-> sql, params |-> params]

\* the statements of the chat-memory functions
CreateTableSQL(tableName) ==
  <<"CREATE TABLE IF NOT EXISTS ">> \o Quoted(tableName)
    \o <<" (id INTEGER PRIMARY KEY AUTOINCREMENT, session_id, message_type, content, ",
         "metadata, timestamp, created_at); ", "CREATE INDEX IF NOT EXISTS idx_">>
    \o tableName \o <<"_session_timestamp ON ">> \o Quoted(tableName)
    \o <<" (session_id, timestamp);">>

InsertSQL(tableName) ==
  <<"INSERT INTO ">> \o Quoted(tableName)
    \o <<" (session_id, message_type, content, metadata, timestamp) VALUES (",
         "?", ", ", "?", ", ", "?", ", ", "?", ", ", "?", ")">>

SelectSQL(tableName) ==
  <<"SELECT id, session_id, message_type, content, metadata, timestamp FROM ">>
    \o Quoted(tableName)
    \o <<" WHERE session_id = ", "?", " ORDER BY timestamp ASC", " LIMIT ", "?">>

CountSQL(tableName) ==
  <<"SELECT COUNT(*) as count FROM ">> \o Quoted(tableName)
    \o <<" WHERE session_id = ", "?">>

DeleteSQL(tableName) ==
  <<"DELETE FROM ">> \o Quoted(tableName) \o <<" WHERE session_id = ", "?">>

ExpiredCleanupSQL(tableName, expirationDays) ==
  <<"DELETE FROM ">> \o Quoted(tableName)
    \o <<" WHERE session_id = ", "?", " AND timestamp < datetime('now', '-">>
    \o Interpolate(Num(expirationDays)) \o <<" days')">>

ExcessCleanupSQL(tableName) ==
  <<"DELETE FROM ">> \o Quoted(tableName)
    \o <<" WHERE session_id = ", "?", " AND id NOT IN (SELECT id FROM ">>
    \o Quoted(tableName)
    \o <<" WHERE session_id = ", "?", " ORDER BY timestamp DESC", " LIMIT ", "?", ")">>

\* the request of each function
EnsureRequest(config) == Query(CreateTableSQL(config.tableName), << >>)

StoreRequest(config, message) ==
  Query(InsertSQL(config.tableName),
        <<config.sessionId, message.type, message.content, message.metadata,
          message.timestamp>>)

GetRequest(config) ==
  Query(SelectSQL(config.tableName), <<config.sessionId, config.maxMessages>>)

CountRequest(config) == Query(CountSQL(config.tableName), <<config.sessionId>>)

ClearRequest(config) == Query(DeleteSQL(config.tableName), <<config.sessionId>>)

CleanupRequest(config) ==
  [queries |->
     <<Query(ExpiredCleanupSQL(config.tableName, config.expirationDays), <<config.sessionId>>),
       Query(ExcessCleanupSQL(config.tableName),
             <<config.sessionId, config.sessionId, config.maxMessages>>)>>]

\* the rows of a session
SessionRows(rows, session) == {r \in rows : r.session_id = session}

\* the row INSERT adds for the bound values
InsertedRow(id, params) ==
  [id |-> id, session_id |-> params[1], message_type |-> params[2], content |-> params[3],
   timestamp |-> params[5]]

\* DELETE without its WHERE clause
ClearRows_AllSessions(rows, session) == {}

\* DELETE ... WHERE session_id = ?
ClearRows(rows, session) == {r \in rows : r.session_id # session}

\* DELETE ... WHERE session_id = ? AND timestamp < datetime('now', '-N days')
ExpireRows(rows, session, now, days) ==
  {r \in rows : ~(r.session_id = session /\ r.timestamp < now - days)}

\* SELECT ... WHERE session_id = ? ORDER BY timestamp ASC LIMIT ?: the sets
\* of rows it may give, rows of one timestamp being in any order
OldestFirst(rows, session, limit) ==
  LET all == SessionRows(rows, session)
  IN  {got \in SUBSET all :
         /\ Cardinality(got) = IF Cardinality(all) < limit THEN Cardinality(all) ELSE limit
         /\ \A g \in got, r \in all \ got : g.timestamp <= r.timestamp}

\* SELECT ... WHERE session_id = ? LIMIT ? without its ORDER BY
MostRecent_Unordered(rows, session, limit) ==
  LET all == SessionRows(rows, session)
  IN  {keep \in SUBSET all :
         Cardinality(keep) = IF Cardinality(all) < limit THEN Cardinality(all) ELSE limit}

\* SELECT ... WHERE session_id = ? ORDER BY timestamp DESC LIMIT ?: the sets
\* of rows it may give, rows of one timestamp being in any order
MostRecent(rows, session, limit) ==
  LET all == SessionRows(rows, session)
  IN  {keep \in SUBSET all :
         /\ Cardinality(keep) = IF Cardinality(all) < limit THEN Cardinality(all) ELSE limit
         /\ \A k \in keep, r \in all \ keep : k.timestamp >= r.timestamp}

\* DELETE ... WHERE session_id = ? AND id NOT IN (keep)
ExcessRows(rows, session, keep) ==
  {r \in rows : ~(r.session_id = session /\ r.id \notin {k.id : k \in keep})}

\* the tables the cleanup batch may leave: the first statement, then the second
CleanedRows(rows, batch, now, days) ==
  LET expired == batch.queries[1].params
      excess == batch.queries[2].params
      left == ExpireRows(rows, expired[1], now, days)
  IN  {ExcessRows(left, excess[1], keep) : keep \in MostRecent(left, excess[2], excess[3])}

\* the catch of cleanupChatMessages rethrows
CleanupFailed_Rethrown == Threw("Failed to save chat context")

\* the catch of cleanupChatMessages: a warning, and nothing is thrown
CleanupFailed == [status |-> "ok", warned |-> TRUE]

\* the cleanup batch was applied
CleanedUp == [status |-> "ok", warned |-> FALSE]

\* what a sequence of requests may leave
Ending(memory, database, requests, result) ==
  [mem |-> memory, db |-> database, http |-> requests, ret |-> result]

\* ensureChatMemoryTable: the table exists afterwards, or the request failed
ensureChatMemoryTable(database, config) ==
  LET request == EnsureRequest(config)
  IN  {[db |-> database, http |-> <<request>>, failed |-> TRUE],
       [db |-> [database EXCEPT !.tables = @ \cup {config.tableName}],
        http |-> <<request>>, failed |-> FALSE]}

\* if (!this.config) await this.initialize(): this.config is assigned as
\* soon as the credentials are read, before the table is ensured
initialize(memory, database, config) ==
  IF memory.config
  THEN {[mem |-> memory, db |-> database, http |-> << >>, failed |-> FALSE]}
  ELSE {[mem |-> memory, db |-> database, http |-> << >>, failed |-> TRUE]}
       \cup {[mem |-> [config |-> TRUE, ensured |-> ~e.failed], db |-> e.db, http |-> e.http,
              failed |-> e.failed] : e \in ensureChatMemoryTable(database, config)}

\* storeChatMessage for each message in turn, up to the first failure
RECURSIVE storeChatMessage(_, _, _, _)
storeChatMessage(database, config, messages, now) ==
  IF messages = << >>
  THEN {[db |-> database, http |-> << >>, failed |-> FALSE]}
  ELSE LET message == Head(messages)
           this == StoreRequest(config, [type |-> message.type, content |-> message.content,
                                         metadata |-> message.type, timestamp |-> now])
           stored == [database EXCEPT
                        !.rows = @ \cup {InsertedRow(database.nextId, this.params)},
                        !.nextId = @ + 1]
       IN  {[db |-> database, http |-> <<this>>, failed |-> TRUE]}
           \cup (IF config.tableName \in database.tables
                 THEN {[db |-> o.db, http |-> <<this>> \o o.http, failed |-> o.failed] :
                         o \in storeChatMessage(stored, config, Tail(messages), now)}
                 ELSE {})

\* cleanupChatMessages: the batch of the two deletions; a failure is logged
cleanupChatMessages(database, config, now) ==
  LET request == CleanupRequest(config)
  IN  {[db |-> database, http |-> <<request>>, ret |-> CleanupFailed]}
      \cup (IF config.tableName \in database.tables
            THEN {[db |-> [database EXCEPT !.rows = rows], http |-> <<request>>,
                   ret |-> CleanedUp] :
                    rows \in CleanedRows(database.rows, request, now, config.expirationDays)}
            ELSE {})

\* clearChatSession
clearChatSession(database, config) ==
  LET request == ClearRequest(config)
  IN  {[db |-> database, http |-> <<request>>, failed |-> TRUE]}
      \cup (IF config.tableName \in database.tables
            THEN {[db |-> [database EXCEPT !.rows = ClearRows(@, request.params[1])],
                   http |-> <<request>>, failed |-> FALSE]}
            ELSE {})

\* the orders in which ORDER BY timestamp ASC may give a set of rows
InOrder(got) ==
  {results \in [1..Cardinality(got) -> got] :
     /\ \A i, j \in DOMAIN results : i < j =>
          /\ results[i] # results[j]
          /\ results[i].timestamp <= results[j].timestamp}

\* result.results.map(row => ({id, sessionId, type, content, metadata, timestamp}))
ChatMessages(results) ==
  [i \in DOMAIN results |->
     [id |-> results[i].id, sessionId |-> results[i].session_id,
      type |-> results[i].message_type, content |-> results[i].content,
      timestamp |-> results[i].timestamp]]

\* getChatMessages: a failure is logged and gives no messages
getChatMessages(database, config) ==
  LET request == GetRequest(config)
  IN  {[http |-> <<request>>, messages |-> << >>, logged |-> TRUE]}
      \cup (IF config.tableName \in database.tables
            THEN {[http |-> <<request>>, messages |-> ChatMessages(results),
                   logged |-> FALSE] :
                    results \in UNION {InOrder(got) :
                      got \in OldestFirst(database.rows, request.params[1],
                                          request.params[2])}}
            ELSE {})

\* getChatMessageCount: a failure is logged and gives 0
getChatMessageCount(database, config) ==
  LET request == CountRequest(config)
  IN  {[http |-> <<request>>, count |-> 0]}
      \cup (IF config.tableName \in database.tables
            THEN {[http |-> <<request>>,
                   count |-> Cardinality(SessionRows(database.rows, request.params[1]))]}
            ELSE {})

\* values[key], undefined when the object has no such key
Property(values, key) ==
  IF \E i \in DOMAIN values : values[i].k = key
  THEN values[CHOOSE i \in DOMAIN values :
                values[i].k = key /\ \A j \in 1..(i - 1) : values[j].k # key].v
  ELSE Undef

\* String(v): the text of a string, '' for an empty array
String(v) == IF IsArr(v) /\ v.a = << >> THEN << >> ELSE Interpolate(v)

RECURSIVE CommonValue(_, _)
\* for (const key of commonKeys) if (values[key]) return String(values[key])
CommonValue(values, keys) ==
  IF keys = << >> THEN Null
  ELSE IF Truthy(Property(values, Head(keys)))
  THEN Str(String(Property(values, Head(keys))))
  ELSE CommonValue(values, Tail(keys))

RECURSIVE FirstString(_)
\* the first value that is a string with something else than blanks
FirstString(values) ==
  IF values = << >> THEN Null
  ELSE IF IsStr(Head(values).v) /\ Trim(Head(values).v.s) # << >> THEN Head(values).v
  ELSE FirstString(Tail(values))

\* the configured key, then the common keys, then the first string value
FoundValue(values, key, commonKeys) ==
  IF ~IsUndef(key) /\ key.s # "" /\ Truthy(Property(values, key.s))
  THEN Str(String(Property(values, key.s)))
  ELSE IF ~IsNull(CommonValue(values, commonKeys)) THEN CommonValue(values, commonKeys)
  ELSE FirstString(values)

getInputValue(inputValues, key) ==
  FoundValue(inputValues, key, <<"input", "question", "query", "prompt", "message">>)

getOutputValue(outputValues, key) ==
  FoundValue(outputValues, key, <<"output", "response", "text", "answer", "result">>)

\* saveContext storing the AI message in front of the human message
ContextMessages_AIFirst(input, output) ==
  (IF Truthy(output) THEN <<[type |-> "ai", content |-> output.s]>> ELSE << >>)
    \o (IF Truthy(input) THEN <<[type |-> "human", content |-> input.s]>> ELSE << >>)

\* the messages saveContext stores: if (input) human, if (output) ai
ContextMessages(input, output) ==
  (IF Truthy(input) THEN <<[type |-> "human", content |-> input.s]>> ELSE << >>)
    \o (IF Truthy(output) THEN <<[type |-> "ai", content |-> output.s]>> ELSE << >>)

\* saveContext of memory m
saveContext(memory, database, config, input, output, now) ==
  LET stores(i) == storeChatMessage(i.db, config, ContextMessages(input, output), now)
      cleanups(i, s) == cleanupChatMessages(s.db, config, now)
  IN  UNION {IF i.failed
             THEN {Ending(i.mem, i.db, i.http,
                            Threw("Failed to initialize Cloudflare D1 memory"))}
             ELSE UNION {IF s.failed
                         THEN {Ending(i.mem, s.db, i.http \o s.http,
                                        Threw("Failed to save chat context"))}
                         ELSE {Ending(i.mem, c.db, i.http \o s.http \o c.http, c.ret) :
                                 c \in cleanups(i, s)} :
                           s \in stores(i)} :
               i \in initialize(memory, database, config)}

\* clear of memory m
clear(memory, database, config) ==
  UNION {IF i.failed
         THEN {Ending(i.mem, i.db, i.http,
                        Threw("Failed to initialize Cloudflare D1 memory"))}
         ELSE {Ending(i.mem, c.db, i.http \o c.http,
                        IF c.failed THEN Threw("Failed to clear chat memory") ELSE Void) :
                 c \in clearChatSession(i.db, config)} :
           i \in initialize(memory, database, config)}

\* messages.map(msg => ({_getType: () => messageType.toLowerCase(), content, ...}))
LangchainMessages(messages) ==
  [i \in DOMAIN messages |->
     [type |-> IF messages[i].type = "human" THEN "humanmessage"
               ELSE IF messages[i].type = "ai" THEN "aimessage" ELSE "systemmessage",
      content |-> messages[i].content]]

\* messages.map(msg => `${role}: ${msg.content}`).join('\n')
FormattedHistory(messages) ==
  Join([i \in DOMAIN messages |->
          <<IF messages[i].type = "human" THEN "Human"
            ELSE IF messages[i].type = "ai" THEN "AI" ELSE "System",
            ": ">> \o messages[i].content], <<"\n">>)

\* loadMemoryVariables of memory m; retrieved and logged keep what
\* getChatMessages gave and whether it logged a failure
loadMemoryVariables(memory, database, config, key, asMessages) ==
  UNION {IF i.failed
         THEN {Ending(i.mem, i.db, i.http,
                        Threw("Failed to initialize Cloudflare D1 memory"))}
         ELSE {Ending(i.mem, i.db, i.http \o g.http,
                        [status |-> "ok",
                         variables |-> <<[k |-> key,
                                          v |-> IF asMessages
                                                THEN Arr(LangchainMessages(g.messages))
                                                ELSE Str(FormattedHistory(g.messages))]>>,
                         retrieved |-> g.messages, logged |-> g.logged]) :
                 g \in getChatMessages(i.db, config)} :
           i \in initialize(memory, database, config)}

\* getMessageCount of memory m
getMessageCount(memory, database, config) ==
  UNION {IF i.failed
         THEN {Ending(i.mem, i.db, i.http,
                        Threw("Failed to initialize Cloudflare D1 memory"))}
         ELSE {Ending(i.mem, i.db, i.http \o g.http,
                        [status |-> "ok", count |-> g.count]) :
                 g \in getChatMessageCount(i.db, config)} :
           i \in initialize(memory, database, config)}

\* the statements of the sub-node's own functions
InitializeTableSQL(tableName) ==
  <<"CREATE TABLE IF NOT EXISTS ">> \o Quoted(tableName)
    \o <<" (id INTEGER PRIMARY KEY AUTOINCREMENT, session_id, message_type, message, ",
         "metadata, timestamp, created_at, ",
         "INDEX idx_session_timestamp (session_id, timestamp));">>

AddMessageSQL(tableName) ==
  <<"INSERT INTO ">> \o Quoted(tableName)
    \o <<" (session_id, message_type, message, metadata, timestamp) VALUES (",
         "?", ", ", "?", ", ", "?", ", ", "?", ", ", "?", ")">>

\* initializeTable of the sub-node: the credentials, then the statement
initializeTable(database, config) ==
  LET request == Query(InitializeTableSQL(config.tableName), << >>)
  IN  {[db |-> database, http |-> << >>, ret |-> Threw("Failed to get credentials")],
       [db |-> database, http |-> <<request>>,
        ret |-> Threw("Failed to initialize chat memory table")],
       [db |-> [database EXCEPT !.tables = @ \cup {config.tableName}], http |-> <<request>>,
        ret |-> Void]}

\* cleanupMessages of the sub-node: the credentials are read outside the try
cleanupMessages(database, config, now) ==
  {[db |-> database, http |-> << >>, ret |-> Threw("Failed to get credentials")]}
    \cup cleanupChatMessages(database, config, now)

\* addMessage of the sub-node
addMessage(database, config, message, autoInitialize) ==
  LET request == Query(AddMessageSQL(config.tableName),
                       <<message.session_id, message.message_type, message.message,
                         message.metadata, message.timestamp>>)
      initialized == IF autoInitialize THEN initializeTable(database, config)
                     ELSE {[db |-> database, http |-> << >>, ret |-> Void]}
      stored(d) == [d EXCEPT !.rows = @ \cup {InsertedRow(d.nextId, request.params)},
                             !.nextId = @ + 1]
      inserted(d) ==
        {[db |-> d, http |-> << >>, ret |-> Threw("Failed to get credentials")],
         [db |-> d, http |-> <<request>>,
          ret |-> Threw("Failed to add message to chat memory")]}
          \cup (IF config.tableName \in d.tables
                THEN {[db |-> stored(d), http |-> <<request>>, ret |-> Void]}
                ELSE {})
  IN  UNION {IF i.ret.status = "error"
             THEN {i}
             ELSE UNION {IF s.ret.status = "error"
                         THEN {[db |-> s.db, http |-> i.http \o s.http, ret |-> s.ret]}
                         ELSE {[db |-> c.db, http |-> i.http \o s.http \o c.http,
                                ret |-> c.ret] :
                                 c \in cleanupMessages(s.db, config, message.timestamp)} :
                           s \in inserted(i.db)} :
               i \in initialized}

\* an operation of memory m ends with one of its outcomes
Ends(m, outcomes) ==
  \E o \in outcomes :
    /\ mem' = [mem EXCEPT ![m] = o.mem]
    /\ db' = o.db
    /\ http' = o.http
    /\ ret' = o.ret
    /\ UNCHANGED <<earlier, clock, run>>

SaveContext ==
  \E m \in Memories, context \in Contexts :
    LET input == getInputValue(context.inputValues, inputKey(m))
        output == getOutputValue(context.outputValues, outputKey(m))
    IN  /\ Ready
        /\ db.nextId + Len(ContextMessages(input, output)) <= MaxRows + 1
        /\ call' = [fn |-> "saveContext", memory |-> m,
                    inputValues |-> context.inputValues,
                    outputValues |-> context.outputValues,
                    input |-> input, output |-> output]
        /\ Ends(m, saveContext(mem[m], db, memoryConfig(m), input, output, clock))

Clear ==
  \E m \in Memories :
    /\ Ready
    /\ call' = [fn |-> "clear", memory |-> m]
    /\ Ends(m, clear(mem[m], db, memoryConfig(m)))

LoadMemoryVariables ==
  \E m \in Memories :
    /\ Ready
    /\ call' = [fn |-> "loadMemoryVariables", memory |-> m]
    /\ Ends(m, loadMemoryVariables(mem[m], db, memoryConfig(m), memoryKey(m),
                                    returnMessages(m)))

GetMessageCount ==
  \E m \in Memories :
    /\ Ready
    /\ call' = [fn |-> "getMessageCount", memory |-> m]
    /\ Ends(m, getMessageCount(mem[m], db, memoryConfig(m)))

\* the sub-node adds a message to the session of its configuration
AddMessage ==
  \E m \in Memories, autoInitialize \in BOOLEAN, type \in {"human"} :
    /\ Ready
    /\ db.nextId <= MaxRows
    /\ call' = [fn |-> "addMessage", memory |-> m, autoInitialize |-> autoInitialize,
                type |-> type]
    /\ \E o \in addMessage(db, memoryConfig(m),
                            [session_id |-> memoryConfig(m).sessionId, message_type |-> type,
                             message |-> <<"h", "i">>, metadata |-> type,
                             timestamp |-> clock],
                            autoInitialize) :
         /\ db' = o.db
         /\ http' = o.http
         /\ ret' = o.ret
    /\ UNCHANGED <<earlier, mem, clock, run>>

\* a day passes
Tick ==
  /\ Ready
  /\ clock < MaxClock
  /\ clock' = clock + 1
  /\ UNCHANGED <<call, ret, http, earlier, mem, db, run>>

(***************************************************************************)
(* The remote service and the item loop of execute.  helpers.httpRequest   *)
(* throws, or gives the envelope of the D1 API: its success flag, its      *)
(* errors and one result for each statement.                               *)
(***************************************************************************)
TransportFailure == [transport |-> "failed", message |-> "timeout"]

Envelope(success, errors, result) ==
  [transport |-> "ok", success |-> success, errors |-> errors, result |-> result]

ApiError(message) == [message |-> message]

\* the envelopes of a request of n statements
Responses(n) ==
  {TransportFailure}
    \cup {Envelope(FALSE, e, << >>) :
            e \in {Undef, Arr(<< >>),
                   Arr(<<ApiError("no such table"), ApiError("near syntax error")>>)}}
    \cup {Envelope(TRUE, Undef, r) : r \in [1..n -> {[success |-> TRUE], [success |-> FALSE]}]}

\* a function returns the response it received
Returned(response) == [status |-> "ok", response |-> response]

\* the last message of the errors array
ErrorMessage_Last(errors) ==
  IF Truthy(errors) /\ Len(errors.a) > 0 THEN errors.a[Len(errors.a)].message
  ELSE "Unknown error occurred"

\* response.errors && response.errors.length > 0 ? response.errors[0].message : ...
ErrorMessage(errors) ==
  IF Truthy(errors) /\ Len(errors.a) > 0 THEN errors.a[1].message
  ELSE "Unknown error occurred"

\* the try of executeQuery and of executeBatch around helpers.httpRequest
Respond(response, wrapping) ==
  IF response.transport = "failed" THEN Threw(<<wrapping, response.message>>)
  ELSE IF ~response.success
  THEN Threw(<<"Cloudflare D1 API error: ", ErrorMessage(response.errors)>>)
  ELSE Returned(response)

executeQuery(sql, params, response) ==
  [http |-> <<Query(sql, params)>>,
   ret |-> Respond(response, "Failed to execute D1 query: ")]

executeBatch(queries, response) ==
  [http |-> <<[queries |->
                 [i \in 1..Len(queries) |->
                    Query(queries[i].sql,
                          IF Truthy(queries[i].params) THEN queries[i].params.a
                          ELSE << >>)]]>>,
   ret |-> Respond(response, "Failed to execute D1 batch: ")]

\* the result of an item
Done(data) == [status |-> "ok", data |-> data]

\* result = {success: response.result[0].success, ...}
SingleResult(response) == [success |-> response.result[1].success]

\* result = response.result.map((batchResult, index) => ({queryIndex: index, ...}))
BatchResults(response) ==
  [i \in 1..Len(response.result) |->
     [queryIndex |-> i - 1, success |-> response.result[i].success]]

\* one item in the current node: the body of the try
ExecuteItem(item, response) ==
  CASE item.operation = "executeQuery" ->
         LET r == executeQuery(item.sqlQuery, item.queryParameters, response)
         IN  IF r.ret.status = "error" THEN r
             ELSE [http |-> r.http, ret |-> Done(SingleResult(r.ret.response))]
    [] item.operation = "batchQueries" ->
         LET r == executeBatch(item.sqlQueries, response)
         IN  IF r.ret.status = "error" THEN r
             ELSE [http |-> r.http, ret |-> Done(BatchResults(r.ret.response))]
    [] item.operation = "insert" ->
         LET built == ExecuteInsert(item.table, item.columnValues)
             r == executeQuery(built.sql, built.params, response)
         IN  IF built.status = "error" THEN [http |-> << >>, ret |-> built]
             ELSE IF r.ret.status = "error" THEN r
             ELSE [http |-> r.http, ret |-> Done(SingleResult(r.ret.response))]

\* one item in the first version of the node, which sends the request itself
ExecuteItemV1(item, response) ==
  LET send(body) ==
        [http |-> <<body>>,
         ret |-> IF response.transport = "failed" THEN Threw(response.message)
                 ELSE IF ~response.success
                 THEN Threw(<<"Cloudflare D1 API error: ", ErrorMessage(response.errors)>>)
                 ELSE Done(IF item.operation = "batchQueries" THEN BatchResults(response)
                           ELSE SingleResult(response))]
  IN  CASE item.operation = "executeQuery" ->
             send(Query(item.sqlQuery, item.queryParameters))
        [] item.operation = "batchQueries" -> send([queries |-> item.sqlQueries])
        [] OTHER -> [http |-> << >>, ret |-> Threw(<<"Unknown operation: ", item.operation>>)]

\* the items of an execution
Items ==
  {[resource |-> "query", operation |-> "executeQuery", sqlQuery |-> <<"SELECT 1">>,
    queryParameters |-> << >>],
   [resource |-> "query", operation |-> "batchQueries",
    sqlQueries |-> <<[sql |-> <<"DELETE FROM a">>, params |-> Undef],
                     [sql |-> <<"DELETE FROM b">>, params |-> Arr(<<1>>)]>>],
   [resource |-> "table", operation |-> "insert", table |-> <<"t">>,
    columnValues |-> <<Field(<<"a">>, X)>>],
   [resource |-> "table", operation |-> "insert", table |-> <<"1", "t">>,
    columnValues |-> <<Field(<<"a">>, X)>>]}

ItemLists == UNION {[1..n -> Items] : n \in 0..MaxItems}

\* the statements of the request of an item
Statements(item) == IF item.operation = "batchQueries" THEN Len(item.sqlQueries) ELSE 1

\* no execution has started
NoRun == [state |-> "idle"]

\* returnData.push({resource, operation, databaseId, data: result, timestamp})
ResultEntry(item, data) == [operation |-> item.operation, data |-> data]

\* returnData.push({error: error.message, item: items[i], timestamp})
ErrorEntry(item, error) == [error |-> error, item |-> item]

Pushed(r, i, failed, entry) ==
  [r EXCEPT !.index = i, !.returnData = Append(@, entry),
            !.processed = Append(@, [index |-> i, failed |-> failed])]

\* the catch of the loop rethrows whatever the setting
Caught_Rethrown(r, i, error) ==
  [r EXCEPT !.index = i, !.state = "thrown",
            !.processed = Append(@, [index |-> i, failed |-> TRUE])]

\* the catch of the loop: an error entry, or the error is thrown again
Caught(r, i, error) ==
  IF r.continueOnFail THEN Pushed(r, i, TRUE, ErrorEntry(r.items[i], error))
  ELSE [r EXCEPT !.index = i, !.state = "thrown",
                 !.processed = Append(@, [index |-> i, failed |-> TRUE])]

\* execute is called: const items = this.getInputData()
StartExecute ==
  /\ run.state = "idle"
  /\ \E version \in {1, 2}, items \in ItemLists, continueOnFail \in BOOLEAN :
       run' = [state |-> "running", version |-> version, items |-> items,
               continueOnFail |-> continueOnFail, index |-> 0, returnData |-> << >>,
               processed |-> << >>]
  /\ UNCHANGED <<call, ret, http, earlier, chat>>

\* one turn of the loop
ProcessItem ==
  /\ run.state = "running"
  /\ run.index < Len(run.items)
  /\ LET i == run.index + 1
         item == run.items[i]
     IN  \E response \in Responses(Statements(item)) :
           LET o == IF run.version = 1 THEN ExecuteItemV1(item, response)
                    ELSE ExecuteItem(item, response)
           IN  /\ call' = [fn |-> "execute", index |-> i, item |-> item,
                           response |-> response]
               /\ ret' = o.ret
               /\ http' = o.http
               /\ run' = IF o.ret.status = "ok"
                         THEN Pushed(run, i, FALSE, ResultEntry(item, o.ret.data))
                         ELSE Caught(run, i, o.ret.error)
  /\ UNCHANGED <<earlier, chat>>

\* return [this.helpers.returnJsonArray(returnData)]
ReturnData ==
  /\ run.state = "running"
  /\ run.index = Len(run.items)
  /\ run' = [run EXCEPT !.state = "returned"]
  /\ UNCHANGED <<call, ret, http, earlier, chat>>

\* a direct call of executeQuery
ExecuteQuery ==
  /\ Ready
  /\ \E sql \in {<<"SELECT 1">>}, params \in {<< >>, <<1>>}, response \in Responses(1) :
       /\ call' = [fn |-> "executeQuery", sql |-> sql, params |-> params,
                   response |-> response]
       /\ ret' = executeQuery(sql, params, response).ret
       /\ http' = executeQuery(sql, params, response).http
  /\ UNCHANGED <<earlier, chat, run>>

\* a direct call of executeBatch
ExecuteBatch ==
  /\ Ready
  /\ \E item \in {i \in Items : i.operation = "batchQueries"} :
       \E response \in Responses(Len(item.sqlQueries)) :
         /\ call' = [fn |-> "executeBatch", queries |-> item.sqlQueries,
                     response |-> response]
         /\ ret' = executeBatch(item.sqlQueries, response).ret
         /\ http' = executeBatch(item.sqlQueries, response).http
  /\ UNCHANGED <<earlier, chat, run>>

\* the caller consumes the result; nothing is kept for the next call
Return ==
  /\ ~Ready
  /\ call' = [fn |-> "none"]
  /\ ret' = Idle
  /\ http' = << >>
  /\ UNCHANGED <<earlier, chat, run>>

Init ==
  /\ call = [fn |-> "none"]
  /\ ret = Idle
  /\ http = << >>
  /\ earlier = NoEarlierCall
  /\ mem = NewMemories
  /\ db = EmptyDatabase
  /\ clock = 0
  /\ run = NoRun

Next ==
  \/ BuildInsert
  \/ BuildSelect
  \/ BuildUpdate
  \/ BuildDelete
  \/ BuildCreateTable
  \/ BuildWhere
  \/ BuildQuery
  \/ BuildAggregate
  \/ ValidateTable
  \/ ValidateColumns
  \/ FindRecord
  \/ InsertRow
  \/ SelectRows
  \/ UpdateRows
  \/ DeleteRows
  \/ DropTable
  \/ QueryBuilder
  \/ Return

Spec == Init /\ [][Next]_vars

MemoryNext ==
  \/ SaveContext
  \/ Clear
  \/ LoadMemoryVariables
  \/ GetMessageCount
  \/ AddMessage
  \/ Tick
  \/ Return

MemorySpec == Init /\ [][MemoryNext]_vars

ExecuteNext ==
  \/ StartExecute
  \/ ProcessItem
  \/ ReturnData
  \/ ExecuteQuery
  \/ ExecuteBatch
  \/ Return

ExecuteSpec == Init /\ [][ExecuteNext]_vars

(***************************************************************************)
(* The names a descriptor puts into the SQL text.                          *)
(***************************************************************************)
ArrayOrNone(x) == IF IsUndef(x) THEN << >> ELSE x.a
ObjectOrNone(x) == IF IsUndef(x) THEN << >> ELSE x.o
Range(f) == {f[i] : i \in DOMAIN f}
ConditionFields(conds) == {conds[i].field : i \in 1..Len(conds)}

\* the table and column names of the descriptor of the current builder call
DescriptorNames ==
  CASE call.fn = "buildInsertQuery" -> {call.table} \cup Range(Keys(call.data))
    [] call.fn = "buildSelectQuery" ->
         {call.table} \cup (Range(ArrayOrNone(call.columns)) \ {Star})
           \cup Range(Keys(ObjectOrNone(call.where)))
    [] call.fn = "buildUpdateQuery" ->
         {call.table} \cup Range(Keys(call.data)) \cup Range(Keys(ObjectOrNone(call.where)))
    [] call.fn = "buildDeleteQuery" ->
         {call.table} \cup Range(Keys(ObjectOrNone(call.where)))
    [] call.fn = "buildCreateTableSQL" ->
         {call.table} \cup {call.columns[i].name : i \in 1..Len(call.columns)}
    [] call.fn = "buildQueryFromBuilder" ->
         LET b == call.builder
         IN  {b.table} \cup Range(ArrayOrNone(b.columns))
               \cup {j.table : j \in Range(ArrayOrNone(b.joins))}
               \cup ConditionFields(ArrayOrNone(b.where))
               \cup Range(ArrayOrNone(b.groupBy))
               \cup ConditionFields(ArrayOrNone(b.having))
               \cup {o.field : o \in Range(ArrayOrNone(b.orderBy))}
    [] call.fn = "buildAggregateQuery" ->
         LET q == call.query
         IN  {q.table} \cup (IF IsUndef(q.column) THEN {} ELSE {q.column.s})
               \cup ConditionFields(ArrayOrNone(q.where))
               \cup Range(ArrayOrNone(q.groupBy))
               \cup ConditionFields(ArrayOrNone(q.having))
               \cup {o.field : o \in Range(ArrayOrNone(q.orderBy))}
    [] OTHER -> {}

Builders ==
  {"buildInsertQuery", "buildSelectQuery", "buildUpdateQuery", "buildDeleteQuery",
   "buildQueryFromBuilder", "buildAggregateQuery", "buildCreateTableSQL"}

(***************************************************************************)
(* Properties.                                                             *)
(***************************************************************************)

\* C1: for a mapping of n >= 1 entries buildInsertQuery returns a text whose
\* column list is the n quoted column names in the mapping's iteration order
\* and whose VALUES list is n '?' placeholders, and a params list of length
\* n whose i-th element is the value of the i-th column.
C1_InsertColumnsPlaceholdersParams ==
  (call.fn = "buildInsertQuery" /\ Len(call.data) >= 1) =>
    LET n == Len(call.data)
        open == IndexOf(ret.sql, " (")
        mid == IndexOf(ret.sql, ") VALUES (")
        columnsPart == SubSeq(ret.sql, open + 1, mid - 1)
        valuesPart == SubSeq(ret.sql, mid + 1, Len(ret.sql) - 1)
    IN  /\ ret.status = "ok"
        /\ 0 < open /\ open < mid /\ ret.sql[Len(ret.sql)] = ")"
        /\ SplitOn(columnsPart, ", ") = [i \in 1..n |-> Quoted(call.data[i].k)]
        /\ SplitOn(valuesPart, ", ") = [i \in 1..n |-> <<"?">>]
        /\ Len(ret.params) = n
        /\ \A i \in 1..n : ret.params[i] = call.data[i].v

\* an insert of two columns with different values has been built
C1_Witness ==
  /\ call.fn = "buildInsertQuery"
  /\ Len(call.data) = 2
  /\ call.data[1].v # call.data[2].v
  /\ ret.status = "ok"
  /\ Len(ret.params) = 2

\* C2: every builder rejects a descriptor in which the table name or a column
\* name is no identifier, and returns no SQL text for it.
C2_BuildersRejectInvalidNames ==
  (call.fn \in Builders /\ \E n \in DescriptorNames : ~ValidIdentifier(n)) =>
    ret.status = "error"

(***************************************************************************)
(* The same call with other values: the letters x and y exchanged in every *)
(* string value, every positive amount replaced by another positive        *)
(* amount.  Names, operators, list lengths and the presence of every       *)
(* optional part are kept.                                                 *)
(***************************************************************************)
OtherChar(c) == IF c = "x" THEN "y" ELSE IF c = "y" THEN "x" ELSE c

RECURSIVE OtherValue(_)
OtherValue(v) ==
  CASE IsStr(v) -> Str([i \in 1..Len(v.s) |-> OtherChar(v.s[i])])
    [] IsNum(v) -> IF v.n = 0 THEN v ELSE Num((v.n % MaxAmount) + 1)
    [] IsArr(v) -> Arr([i \in 1..Len(v.a) |-> OtherValue(v.a[i])])
    [] OTHER -> v

OtherObject(o) == [i \in 1..Len(o) |-> [k |-> o[i].k, v |-> OtherValue(o[i].v)]]
OtherWhere(w) == IF IsUndef(w) THEN w ELSE Obj(OtherObject(w.o))
OtherConds(cs) ==
  IF IsUndef(cs) THEN cs
  ELSE Arr([i \in 1..Len(cs.a) |->
              [cs.a[i] EXCEPT !.value = OtherValue(@), !.value2 = OtherValue(@)]])
OtherNodeConds(cs) == [i \in 1..Len(cs) |-> [cs[i] EXCEPT !.value = OtherValue(@)]]
OtherFields(fs) == [i \in 1..Len(fs) |-> [fs[i] EXCEPT !.value = OtherValue(@)]]

OtherCall(c) ==
  CASE c.fn = "buildInsertQuery" -> [c EXCEPT !.data = OtherObject(@)]
    [] c.fn = "buildSelectQuery" ->
         [c EXCEPT !.where = OtherWhere(@), !.limit = OtherValue(@), !.offset = OtherValue(@)]
    [] c.fn = "buildUpdateQuery" ->
         [c EXCEPT !.data = OtherObject(@), !.where = OtherWhere(@)]
    [] c.fn = "buildDeleteQuery" ->
         [c EXCEPT !.where = OtherWhere(@), !.limit = OtherValue(@)]
    [] c.fn = "buildQueryFromBuilder" ->
         [c EXCEPT !.builder.where = OtherConds(@), !.builder.having = OtherConds(@),
                   !.builder.limit = OtherValue(@), !.builder.offset = OtherValue(@)]
    [] c.fn = "buildAggregateQuery" ->
         [c EXCEPT !.query.where = OtherConds(@), !.query.having = OtherConds(@)]
    [] c.fn = "findRecord" ->
         [c EXCEPT !.findValue = OtherValue(@), !.findOptions.findLimit = OtherValue(@)]
    [] c.fn = "select" -> [c EXCEPT !.where = OtherNodeConds(@), !.limit = OtherValue(@)]
    [] c.fn = "update" ->
         [c EXCEPT !.updateFields = OtherFields(@), !.where = OtherNodeConds(@)]
    [] c.fn = "delete" ->
         [c EXCEPT !.where = OtherNodeConds(@), !.deleteLimit = OtherValue(@)]
    [] OTHER -> c

\* what the call c returns
Outcome(c) ==
  CASE c.fn = "buildInsertQuery" -> buildInsertQuery(c.table, c.data)
    [] c.fn = "buildSelectQuery" ->
         buildSelectQuery(c.table, c.columns, c.where, c.orderBy, c.limit, c.offset)
    [] c.fn = "buildUpdateQuery" -> buildUpdateQuery(c.table, c.data, c.where)
    [] c.fn = "buildDeleteQuery" -> buildDeleteQuery(c.table, c.where, c.limit)
    [] c.fn = "buildQueryFromBuilder" -> buildQueryFromBuilder(c.builder)
    [] c.fn = "buildAggregateQuery" -> buildAggregateQuery(c.query)
    [] c.fn = "buildCreateTableSQL" -> buildCreateTableSQL(c.table, c.columns, c.options)
    [] c.fn = "buildWhereClause" ->
         LET r == buildWhereClause(c.conditions, << >>, c.logic) IN Ok(r.text, r.params)
    [] c.fn = "findRecord" ->
         ExecuteFindRecord(c.table, c.findColumn, c.findOperator, c.findValue, c.findOptions)
    [] c.fn = "select" -> ExecuteSelect(c.table, c.limit, c.columns, c.where, c.orderBy)
    [] c.fn = "update" -> ExecuteUpdate(c.table, c.updateFields, c.where)
    [] c.fn = "delete" -> ExecuteDelete(c.table, c.where, c.deleteLimit)

ValueFreeCalls ==
  {"buildInsertQuery", "buildSelectQuery", "buildUpdateQuery", "buildDeleteQuery",
   "buildQueryFromBuilder", "buildAggregateQuery", "findRecord", "select", "update",
   "delete"}

\* C3: two invocations of a DML builder, or of the node's Find Record, Select,
\* Update or Delete, that differ only in the supplied values produce the same
\* SQL text.
C3_ValuesNeverReachText ==
  (call.fn \in ValueFreeCalls /\ ret.status = "ok") =>
    LET other == Outcome(OtherCall(call))
    IN  other.status = "ok" /\ other.sql = ret.sql

\* the tokens of text after the first tok, up to the first of the tokens in stops
Clause(text, tok, stops) ==
  LET i == IndexOf(text, tok)
      rest == From(text, i + 1)
      ends == {j \in 1..Len(rest) : rest[j] \in stops}
      stop == IF ends = {} THEN Len(rest) + 1
              ELSE CHOOSE j \in ends : \A h \in ends : j <= h
  IN  IF i = 0 THEN << >> ELSE SubSeq(rest, 1, stop - 1)

\* the name inside `"name" = ?`
AssignedName(piece) == SubSeq(piece, 2, Len(piece) - 3)

\* the value the last field named n gives
LastValue(fields, n) ==
  LET last == CHOOSE i \in 1..Len(fields) :
                /\ fields[i].name = n
                /\ \A j \in (i + 1)..Len(fields) : fields[j].name # n
  IN  fields[last].value

\* C4: buildUpdateQuery, and the node's Update, return the m update values in
\* SET-clause order followed by the k WHERE values in WHERE-clause order.
C4_UpdateValuesThenWhereValues ==
  /\ call.fn = "buildUpdateQuery" =>
       LET m == Len(call.data)
           w == ObjectOrNone(call.where)
           k == Len(w)
       IN  /\ ret.status = "ok"
           /\ Len(ret.params) = m + k
           /\ \A i \in 1..m : ret.params[i] = call.data[i].v
           /\ \A i \in 1..k : ret.params[m + i] = w[i].v
           /\ SplitOn(Clause(ret.sql, " SET ", {" WHERE "}), ", ")
                = (IF m = 0 THEN <<<< >>>> ELSE EqualityTests(Keys(call.data)))
           /\ Clause(ret.sql, " WHERE ", {}) = Join(EqualityTests(Keys(w)), <<" AND ">>)
  /\ (call.fn = "update" /\ ret.status = "ok") =>
       LET sets == SplitOn(Clause(ret.sql, " SET ", {" WHERE "}), ", ")
           m == Len(sets)
           bound == ModifyWhere(call.where).params
           k == Len(bound)
       IN  /\ Len(ret.params) = m + k
           /\ \A i \in 1..m :
                ret.params[i] = LastValue(call.updateFields, AssignedName(sets[i]))
           /\ \A i \in 1..k : ret.params[m + i] = bound[i]

\* an update of two columns filtered on two columns has been built
C4_Witness ==
  /\ call.fn = "buildUpdateQuery"
  /\ Len(call.data) = 2
  /\ ~IsUndef(call.where)
  /\ Len(call.where.o) = 2
  /\ call.data[2].v # call.where.o[1].v
  /\ Len(ret.params) = 4

\* C5: buildSelectQuery turns every entry of the where map into one
\* '"col" = ?' predicate joined by AND, ends the text with 'LIMIT ?' and
\* 'OFFSET ?' for every limit and offset supplied, and returns the where
\* values, then the limit, then the offset; an absent limit or offset adds
\* neither text nor parameter.
C5_SelectBindsLimitAndOffset ==
  call.fn = "buildSelectQuery" =>
    LET w == ObjectOrNone(call.where)
        limitPart == IF IsUndef(call.limit) THEN << >> ELSE <<" LIMIT ", "?">>
        offsetPart == IF IsUndef(call.offset) THEN << >> ELSE <<" OFFSET ", "?">>
        limitValue == IF IsUndef(call.limit) THEN << >> ELSE <<call.limit>>
        offsetValue == IF IsUndef(call.offset) THEN << >> ELSE <<call.offset>>
    IN  /\ ret.status = "ok"
        /\ Clause(ret.sql, " WHERE ", {" ORDER BY ", " LIMIT ", " OFFSET "})
             = Join(EqualityTests(Keys(w)), <<" AND ">>)
        /\ EndsWith(ret.sql, limitPart \o offsetPart)
        /\ Count(ret.sql, " LIMIT ") = Len(limitValue)
        /\ Count(ret.sql, " OFFSET ") = Len(offsetValue)
        /\ ret.params = Values(w) \o limitValue \o offsetValue

\* the values the claim has a condition append to params
ConditionValues(c) ==
  CASE c.operator \in {"IS NULL", "IS NOT NULL"} -> << >>
    [] c.operator \in {"IN", "NOT IN"} -> IF IsArray(c.value) THEN c.value.a ELSE << >>
    [] c.operator = "BETWEEN" -> <<c.value, c.value2>>
    [] OTHER -> <<c.value>>

\* an IN or NOT IN condition carries an array
ListsAreArrays(conds) ==
  \A i \in 1..Len(conds) : conds[i].operator \in {"IN", "NOT IN"} => IsArray(conds[i].value)

\* C6: buildWhereClause emits one fragment per condition in list order, joined
\* by the logic token, and appends to params, in condition order: nothing for
\* IS NULL and IS NOT NULL, the array elements for IN and NOT IN (one '?' per
\* element), value then value2 for BETWEEN, the value for any other operator.
C6_OneFragmentPerCondition ==
  call.fn = "buildWhereClause" =>
    LET conds == call.conditions
        pieces == SplitOn(ret.sql, call.logic[1])
        field(i) == Quoted(conds[i].field)
    IN  /\ ret.status = "ok"
        /\ conds = << >> => ret.sql = << >> /\ ret.params = << >>
        /\ conds # << >> => Len(pieces) = Len(conds)
        /\ \A i \in 1..Len(conds) :
             /\ StartsWith(pieces[i], (IF i = 1 THEN << >> ELSE <<" ">>) \o field(i))
             /\ i < Len(conds) => pieces[i][Len(pieces[i])] = " "
        /\ ListsAreArrays(conds) =>
             /\ ret.params = Flatten([i \in 1..Len(conds) |-> ConditionValues(conds[i])])
             /\ \A i \in 1..Len(conds) :
                  Count(pieces[i], "?")
                    = Count(conds[i].field, "?") + Len(ConditionValues(conds[i]))

\* two conditions, a BETWEEN and an IN of two elements, have been compiled
C6_Witness ==
  /\ call.fn = "buildWhereClause"
  /\ Len(call.conditions) = 2
  /\ call.conditions[1].operator = "BETWEEN"
  /\ call.conditions[1].value # call.conditions[1].value2
  /\ call.conditions[2].operator = "IN"
  /\ IsArray(call.conditions[2].value)
  /\ Len(ret.params) = 4

ClauseKeywords ==
  <<"SELECT ", " FROM ", " JOIN ", " WHERE ", " GROUP BY ", " HAVING ", " ORDER BY ",
    " LIMIT ", " OFFSET ">>

Rank(tok) == CHOOSE i \in 1..Len(ClauseKeywords) : ClauseKeywords[i] = tok

IsKeyword(tok) == tok \in Range(ClauseKeywords)

\* the positions of the clause keywords in text
KeywordPositions(text) == {i \in 1..Len(text) : IsKeyword(text[i])}

\* C7: the clauses in the text of buildQueryFromBuilder are in the order
\* SELECT, FROM, JOIN, WHERE, GROUP BY, HAVING, ORDER BY, LIMIT, OFFSET, each
\* keyword at most once except JOIN, which is there once per JoinSpec, in
\* list order.
C7_ClauseOrder ==
  (call.fn = "buildQueryFromBuilder" /\ ret.status = "ok") =>
    LET sql == ret.sql
        joins == ArrayOrNone(call.builder.joins)
        at == KeywordPositions(sql)
        joinAt == {i \in at : sql[i] = " JOIN "}
        nth(i) == CHOOSE p \in joinAt : Cardinality({q \in joinAt : q < p}) = i - 1
    IN  /\ sql[1] = "SELECT "
        /\ Count(sql, " FROM ") = 1
        /\ \A i, j \in at :
             i < j => \/ Rank(sql[i]) < Rank(sql[j])
                      \/ sql[i] = " JOIN " /\ sql[j] = " JOIN "
        /\ Cardinality(joinAt) = Len(joins)
        /\ \A i \in 1..Len(joins) :
             StartsWith(From(sql, nth(i) + 1), Quoted(joins[i].table) \o <<" ON ">>)

\* a query with two different joins and every other clause has been built
C7_Witness ==
  /\ call.fn = "buildQueryFromBuilder"
  /\ ret.status = "ok"
  /\ Len(ArrayOrNone(call.builder.joins)) = 2
  /\ \A i \in 1..Len(ClauseKeywords) : Count(ret.sql, ClauseKeywords[i]) >= 1

\* C8: with two or more columns marked primaryKey buildCreateTableSQL emits
\* exactly one PRIMARY KEY clause, the trailing composite one listing the
\* primary-key columns in column order, and no column definition carries an
\* inline PRIMARY KEY marker.
C8_CompositePrimaryKeyOnly ==
  (/\ call.fn = "buildCreateTableSQL"
   /\ ret.status = "ok"
   /\ Cardinality({i \in 1..Len(call.columns) : call.columns[i].primaryKey}) >= 2) =>
    /\ Count(ret.sql, " PRIMARY KEY") = 0
    /\ Count(ret.sql, "PRIMARY KEY (") = 1
    /\ Clause(ret.sql, "PRIMARY KEY (", {")"}) = Join(PrimaryKeys(call.columns), <<", ">>)

\* a condition the condition compiler has to reject
Malformed(c) ==
  \/ c.operator = "BETWEEN" /\ IsUndef(c.value2)
  \/ c.operator \in {"IN", "NOT IN"} /\ ~IsArray(c.value)

\* C9: the condition compiler rejects a BETWEEN whose value2 is absent and an
\* IN or NOT IN whose value is no array with an error, and emits no SQL.
C9_MalformedConditionRejected ==
  (/\ call.fn = "buildWhereClause"
   /\ \E i \in 1..Len(call.conditions) : Malformed(call.conditions[i])) =>
    ret.status = "error"

\* C10: buildInsertQuery given an empty mapping and buildUpdateQuery given an
\* empty update map fail with an error and produce no SQL text.
C10_EmptyMappingRejected ==
  (call.fn \in {"buildInsertQuery", "buildUpdateQuery"} /\ call.data = << >>) =>
    ret.status = "error"

(***************************************************************************)
(* The keywords a descriptor puts into the SQL text.                       *)
(***************************************************************************)
ConditionOperators(conds) == {conds[i].operator : i \in 1..Len(conds)}

\* the operators, directions and function name of the current builder call
\* that are outside the enumerations
ForeignKeywords ==
  CASE call.fn = "buildWhereClause" -> ConditionOperators(call.conditions) \ Operators
    [] call.fn = "buildQueryFromBuilder" ->
         LET b == call.builder
         IN  (ConditionOperators(ArrayOrNone(b.where)) \ Operators)
               \cup (ConditionOperators(ArrayOrNone(b.having)) \ Operators)
               \cup ({o.direction : o \in Range(ArrayOrNone(b.orderBy))} \ Directions)
    [] call.fn = "buildAggregateQuery" ->
         LET q == call.query
         IN  (ConditionOperators(ArrayOrNone(q.where)) \ Operators)
               \cup (ConditionOperators(ArrayOrNone(q.having)) \ Operators)
               \cup ({o.direction : o \in Range(ArrayOrNone(q.orderBy))} \ Directions)
               \cup ({q.function} \ AggregateFunctions)
    [] OTHER -> {}

\* C11: buildWhereClause, buildQueryFromBuilder and buildAggregateQuery reject
\* with an error a condition operator outside the 13 operators, an ORDER BY
\* direction outside ASC and DESC and an aggregate function outside the
\* enumeration, so that no such keyword is in an emitted text.
C11_KeywordsFromEnumerations ==
  ForeignKeywords # {} => ret.status = "error"

Names(records, field) == {records[i][field] : i \in 1..Len(records)}

\* the table and column names the current operation of the node puts into
\* the SQL text
OperationNames ==
  CASE call.fn = "findRecord" -> {call.table, call.findColumn}
    [] call.fn = "insert" -> {call.table} \cup Names(call.columnValues, "name")
    [] call.fn = "select" ->
         {call.table} \cup (Range(call.columns) \ {Star}) \cup Names(call.where, "column")
           \cup Names(call.orderBy, "column")
    [] call.fn = "update" ->
         {call.table} \cup Names(call.updateFields, "name") \cup Names(call.where, "column")
    [] call.fn = "delete" -> {call.table} \cup Names(call.where, "column")
    [] call.fn = "dropTable" -> {call.table}
    [] call.fn = "queryBuilder" ->
         {call.table} \cup Range(call.queryColumns) \cup Names(call.where, "field")
           \cup Names(call.orderBy, "field")
    [] OTHER -> {}

\* an insert or update that supplies no column
NoColumns ==
  \/ call.fn = "insert" /\ call.columnValues = << >>
  \/ call.fn = "update" /\ call.updateFields = << >>

Operations ==
  {"findRecord", "insert", "select", "update", "delete", "dropTable", "queryBuilder"}

\* C12: an item of the node whose table name or a column name is no
\* identifier, or whose insert or update supplies no column or an empty
\* column name, is rejected with an error before any request is issued for
\* it: a rejected item causes no request.
C12_RejectedBeforeRequest ==
  (/\ call.fn \in Operations
   /\ \/ \E n \in OperationNames : ~ValidIdentifier(n)
      \/ NoColumns) =>
    ret.status = "error" /\ http = << >>

(***************************************************************************)
(* Calls of the builders one after the other, with the same descriptor or  *)
(* with another one, and one earlier call remembered with what it          *)
(* returned.                                                               *)
(***************************************************************************)
RepeatedCalls ==
  {[fn |-> "buildInsertQuery", table |-> <<"t">>, data |-> d] :
     d \in {m \in DataMaps : Len(m) <= 1}}
    \cup {[fn |-> "buildSelectQuery", table |-> <<"t">>, columns |-> Undef, where |-> w,
           orderBy |-> Undef, limit |-> l, offset |-> Undef] :
            w \in {Undef, Obj(<<[k |-> <<"a">>, v |-> X]>>)}, l \in {Undef, Num(1)}}
    \cup {[fn |-> "buildUpdateQuery", table |-> <<"t">>, data |-> <<[k |-> <<"a">>, v |-> X]>>,
           where |-> w] : w \in {Undef, Obj(<<[k |-> <<"b">>, v |-> Y]>>)}}
    \cup {[fn |-> "buildDeleteQuery", table |-> <<"t">>, where |-> w, limit |-> l] :
            w \in {Undef, Obj(<<[k |-> <<"a">>, v |-> Y]>>)}, l \in {Undef, Num(1)}}
    \cup {[fn |-> "buildCreateTableSQL", table |-> <<"t">>,
           columns |-> <<ColumnSpec(<<"a">>, <<"INTEGER">>, pk, ai, FALSE, FALSE, Undef)>>,
           options |-> [ifNotExists |-> TRUE, withoutRowId |-> FALSE, strict |-> FALSE]] :
            pk \in BOOLEAN, ai \in BOOLEAN}
    \cup {[fn |-> "buildWhereClause", conditions |-> c, logic |-> <<"AND">>] :
            c \in {l \in ConditionLists : Len(l) <= 1}}
    \cup {[fn |-> "buildQueryFromBuilder",
           builder |-> [table |-> <<"t">>, columns |-> Undef, joins |-> Undef, where |-> w,
                        whereLogic |-> Undef, groupBy |-> Undef, having |-> h,
                        orderBy |-> Undef, limit |-> l, offset |-> Undef]] :
            w \in QueryConditions, h \in HavingConditions, l \in {Undef, Num(1)}}
    \cup {[fn |-> "buildAggregateQuery",
           query |-> [table |-> <<"t">>, function |-> "COUNT", column |-> Undef, where |-> w,
                      groupBy |-> Undef, having |-> h, orderBy |-> Undef]] :
            w \in QueryConditions, h \in HavingConditions}

\* a builder is called right after another call: what the call before it
\* returned is still there
CallBuilder ==
  \E c \in RepeatedCalls :
    /\ call' = c
    /\ ret' = Outcome(c)
    /\ earlier' = IF earlier.call.fn # "none" /\ c # earlier.call
                  THEN [earlier EXCEPT !.others = TRUE]
                  ELSE earlier
    /\ UNCHANGED <<http, chat, run>>

\* the call just made is the one to compare later calls with
Remember ==
  /\ call.fn # "none"
  /\ earlier' = [call |-> call, ret |-> ret, others |-> FALSE]
  /\ UNCHANGED <<call, ret, http, chat, run>>

RepeatNext ==
  \/ CallBuilder
  \/ Remember

RepeatSpec == Init /\ [][RepeatNext]_vars

WellFormed(name) ==
  /\ Len(name) >= 1
  /\ name[1] \in {"a", "Z", "_"}
  /\ \A i \in 2..Len(name) : name[i] \in {"a", "Z", "_", "1"}

\* C14: validateTableName and validateColumnNames accept a name if and only
\* if it is not empty, starts with a letter or an underscore and holds
\* letters, digits and underscores only; any other string raises an error,
\* and validateColumnNames raises it at the first element that fails.
C14_ValidatorsAcceptIdentifiersOnly ==
  /\ call.fn = "validateTableName" =>
       /\ ret.status = "ok" <=> WellFormed(call.table)
       /\ ret.status = "error" <=> ~WellFormed(call.table)
  /\ call.fn = "validateColumnNames" =>
       LET bad == {i \in 1..Len(call.columns) : ~WellFormed(call.columns[i])}
       IN  /\ ret.status = "ok" <=> bad = {}
           /\ ret.status = "error" <=> bad # {}
           /\ bad # {} => /\ ret.name \in {call.columns[i] : i \in bad}
                          /\ \A i \in bad : \E j \in 1..i : call.columns[j] = ret.name

\* a list whose first column is an identifier and whose second starts with
\* a digit has been rejected
C14_Witness ==
  /\ call.fn = "validateColumnNames"
  /\ Len(call.columns) = 2
  /\ WellFormed(call.columns[1])
  /\ call.columns[2] = <<"1", "a">>
  /\ ret.status = "error"
  /\ ret.name = <<"1", "a">>

\* a condition of the node with IN or NOT IN and a comma-separated list
IsListCondition(c) == c.operator \in {"IN", "NOT IN"} /\ IsStr(c.value)

\* the fragment of a list condition: one placeholder for each item
ListFragment(c) ==
  Quoted(c.column) \o <<" ", c.operator, " (">>
    \o Join(Placeholders(Len(SplitTrim(c.value.s))), <<", ">>) \o <<")">>

\* C15: in Select, Update and Delete of the node a WHERE condition with IN or
\* NOT IN and a comma-separated list of k items compiles to
\* '"col" <op> (?, ..., ?)' with k placeholders and binds the k trimmed
\* items, one parameter each: a WHERE clause of such conditions is their
\* fragments joined by AND, and the statement's last parameters are their
\* items in order.
C15_ListConditionBindsEachItem ==
  (/\ call.fn \in {"select", "update", "delete"}
   /\ ret.status = "ok"
   /\ Len(call.where) >= 1
   /\ \A i \in 1..Len(call.where) : IsListCondition(call.where[i])) =>
    LET conds == call.where
        items == Flatten([i \in 1..Len(conds) |-> SplitTrim(conds[i].value.s)])
    IN  /\ Clause(ret.sql, " WHERE ", {" ORDER BY ", " LIMIT "})
             = Join([i \in 1..Len(conds) |-> ListFragment(conds[i])], <<" AND ">>)
        /\ Len(ret.params) >= Len(items)
        /\ SubSeq(ret.params, Len(ret.params) - Len(items) + 1, Len(ret.params)) = items

\* the wildcard wrapping: '%value%' unless the value holds a '%'
Wrapped(v) == IF Includes(v.s, "%") THEN v ELSE Str(<<"%">> \o v.s \o <<"%">>)

IsPatternCondition(c) == c.operator \in {"LIKE", "NOT LIKE"} /\ IsStr(c.value)

\* C16: Find Record and Select bind the value of LIKE and of NOT LIKE as
\* '%value%' when it holds no '%' and unchanged when it holds one, so that
\* the bound value given again is bound unchanged; buildWhereClause binds the
\* value of LIKE and NOT LIKE unchanged.
C16_WildcardWrapping ==
  /\ (call.fn = "findRecord" /\ ret.status = "ok"
        /\ call.findOperator \in {"LIKE", "NOT LIKE"}) =>
       /\ ret.params = <<Wrapped(call.findValue)>>
       /\ Outcome([call EXCEPT !.findValue = ret.params[1]]).params = ret.params
  /\ (call.fn = "select" /\ ret.status = "ok"
        /\ \A i \in 1..Len(call.where) : IsPatternCondition(call.where[i])) =>
       ret.params = [i \in 1..Len(call.where) |-> Wrapped(call.where[i].value)]
  /\ (call.fn = "buildWhereClause"
        /\ \A i \in 1..Len(call.conditions) :
             call.conditions[i].operator \in {"LIKE", "NOT LIKE"}) =>
       ret.params = [i \in 1..Len(call.conditions) |-> call.conditions[i].value]

(***************************************************************************)
(* The chat memory.                                                        *)
(***************************************************************************)
\* the session of a memory
Session(m) == memoryConfig(m).sessionId

\* the rows the running saveContext inserts when all its stores succeed
StoredByCall(m) ==
  LET messages == ContextMessages(call'.input, call'.output)
  IN  {[id |-> db.nextId + i - 1, session_id |-> Session(m),
        message_type |-> messages[i].type, content |-> messages[i].content,
        timestamp |-> clock] : i \in 1..Len(messages)}

\* C17: after every saveContext that completes with a successful cleanup,
\* the session of the memory has at most maxMessages messages, and every
\* message removed is no more recent than any message retained.
C17_KeepsMostRecent ==
  [][\A m \in Memories :
       (call'.fn = "saveContext" /\ call'.memory = m /\ ret' = CleanedUp) =>
         LET before == SessionRows(db.rows, Session(m)) \cup StoredByCall(m)
             after == SessionRows(db'.rows, Session(m))
         IN  /\ Cardinality(after) <= memoryConfig(m).maxMessages
             /\ after \subseteq before
             /\ \A removed \in before \ after, kept \in after :
                  removed.timestamp <= kept.timestamp]_vars

\* the first saveContext of the memory that keeps one message stored two
\* messages, and its cleanup left one of them
C17_Witness ==
  /\ call.fn = "saveContext" /\ call.memory = "m1"
  /\ Truthy(call.input) /\ Truthy(call.output)
  /\ ret = CleanedUp
  /\ db.nextId = 3
  /\ Cardinality(SessionRows(db.rows, Session("m1"))) = 1
  /\ SessionRows(db.rows, Session("m2")) = {}

\* the operations of the class CloudflareD1Memory
MemoryOperations == {"saveContext", "clear", "loadMemoryVariables", "getMessageCount"}

\* the statements that store, retrieve, count and clear messages
UseStatements(tableName) ==
  {InsertSQL(tableName), SelectSQL(tableName), CountSQL(tableName), DeleteSQL(tableName)}

\* C18: a memory issues no store, retrieve, count or clear query unless an
\* ensureChatMemoryTable call of that memory has completed successfully
\* before, also when an earlier initialization failed.
C18_TableEnsuredBeforeUse ==
  (/\ call.fn \in MemoryOperations
   /\ \E i \in DOMAIN http :
        /\ "sql" \in DOMAIN http[i]
        /\ http[i].sql \in UseStatements(memoryConfig(call.memory).tableName)) =>
    mem[call.memory].ensured

\* C19: clear and the cleanup of a memory delete rows of its own session
\* only, so the rows of every other session are unchanged; and after a
\* successful clear the session has no rows.
C19_DeletionsKeepOtherSessions ==
  [][\A m \in Memories :
       (call'.fn \in {"saveContext", "clear", "addMessage"} /\ call'.memory = m) =>
         /\ \A s \in {Session(o) : o \in Memories} \ {Session(m)} :
              SessionRows(db'.rows, s) = SessionRows(db.rows, s)
         /\ (call'.fn = "clear" /\ ret' = Void) =>
              SessionRows(db'.rows, Session(m)) = {}]_vars

\* two messages were stored, one of each session; a clear of the first
\* memory succeeded, and the row of the other session is the one left
C19_Witness ==
  /\ call = [fn |-> "clear", memory |-> "m1"]
  /\ ret = Void
  /\ clock = 0
  /\ db.nextId = 3
  /\ \E r \in db.rows : db.rows = {r} /\ r.id = 1 /\ r.session_id = Session("m2")

\* C20: a cleanup batch that fails makes neither saveContext nor addMessage
\* fail and removes none of the messages the call stored; and saveContext
\* succeeds exactly when its initialization, if it runs one, and all its
\* message stores succeed.
C20_CleanupFailureIsHarmless ==
  [][\A m \in Memories :
       (call'.fn \in {"saveContext", "addMessage"} /\ call'.memory = m) =>
         /\ (http' # << >> /\ http'[Len(http')] = CleanupRequest(memoryConfig(m))) =>
              ret'.status = "ok"
         /\ ret' = CleanupFailed =>
              /\ db.rows \subseteq db'.rows
              /\ \A id \in db.nextId..(db'.nextId - 1) :
                   \E r \in db'.rows : r.id = id /\ r.session_id = Session(m)
         /\ call'.fn = "saveContext" =>
              (ret'.status = "ok" <=>
                 /\ mem[m].config \/ mem'[m].ensured
                 /\ db'.nextId - db.nextId
                      = Len(ContextMessages(call'.input, call'.output)))]_vars

\* a saveContext stored its two messages, its cleanup failed, and the
\* session keeps both, one more than maxMessages
C20_Witness ==
  /\ call.fn = "saveContext" /\ call.memory = "m1"
  /\ Truthy(call.input) /\ Truthy(call.output)
  /\ ret = CleanupFailed
  /\ \A id \in {db.nextId - 2, db.nextId - 1} :
       \E r \in db.rows : r.id = id /\ r.session_id = Session("m1")
  /\ Cardinality(SessionRows(db.rows, Session("m1"))) > memoryConfig("m1").maxMessages

(***************************************************************************)
(* The item loop and the remote service.                                   *)
(***************************************************************************)
\* the turns of the loop that failed
FailedTurns == {k \in 1..Len(run.processed) : run.processed[k].failed}

\* C21: the items are processed in input order.  With continue-on-fail
\* every processed item has its one entry at its own position, a result
\* entry if it succeeded and an error entry if it failed, execute never
\* throws and returns only after the last item.  Without it the first
\* failure is the last turn of the loop, execute throws and returns nothing.
C21_OneEntryPerItem ==
  run.state # "idle" =>
    /\ \A k \in 1..Len(run.processed) : run.processed[k].index = k
    /\ run.state = "returned" => Len(run.processed) = Len(run.items)
    /\ run.continueOnFail =>
         /\ run.state # "thrown"
         /\ Len(run.returnData) = Len(run.processed)
         /\ \A k \in 1..Len(run.processed) :
              IF k \in FailedTurns
              THEN /\ DOMAIN run.returnData[k] = {"error", "item"}
                   /\ run.returnData[k].item = run.items[k]
              ELSE /\ DOMAIN run.returnData[k] = {"operation", "data"}
                   /\ run.returnData[k].operation = run.items[k].operation
    /\ ~run.continueOnFail =>
         /\ run.state = "thrown" <=> FailedTurns # {}
         /\ FailedTurns \subseteq {Len(run.processed)}
         /\ run.state = "returned" => Len(run.returnData) = Len(run.items)

\* two items with continue-on-fail: the first failed, the second succeeded,
\* and execute returned both entries
C21_Witness ==
  /\ run.state = "returned"
  /\ run.continueOnFail
  /\ Len(run.items) = 2
  /\ FailedTurns = {1}
  /\ Len(run.returnData) = 2

\* C22: the output of a batch never reports some queries as succeeded and
\* others as failed: when the operation does not fail as a whole, every
\* per-query result is successful.
C22_BatchAllOrNothing ==
  (/\ call.fn = "execute"
   /\ call.item.operation = "batchQueries"
   /\ ret.status = "ok") =>
    \A i \in DOMAIN ret.data : ret.data[i].success

EmittedDefinition(sql, i) == SplitOn(From(sql, IndexOf(sql, " (") + 1), ", ")[i]

\* C23: no constraint flag is lost: the only column marked primaryKey has
\* an inline PRIMARY KEY marker, every column marked notNull has NOT NULL
\* and every column marked unique has UNIQUE.
C23_ConstraintFlagsKept ==
  (call.fn = "buildCreateTableSQL" /\ ret.status = "ok") =>
    \A i \in 1..Len(call.columns) :
      LET column == call.columns[i]
          def == EmittedDefinition(ret.sql, i)
          only == /\ column.primaryKey
                  /\ \A j \in 1..Len(call.columns) : call.columns[j].primaryKey => j = i
      IN  /\ only => Includes(def, " PRIMARY KEY")
          /\ column.notNull => Includes(def, " NOT NULL")
          /\ column.unique => Includes(def, " UNIQUE")

\* C24: AUTOINCREMENT is in the statement at most once, and only in the
\* definition of a column of type INTEGER that is marked primaryKey.
C24_OneAutoIncrement ==
  (call.fn = "buildCreateTableSQL" /\ ret.status = "ok") =>
    /\ Count(ret.sql, " AUTOINCREMENT") <= 1
    /\ \A i \in 1..Len(call.columns) :
         Includes(EmittedDefinition(ret.sql, i), " AUTOINCREMENT") =>
           call.columns[i].type = <<"INTEGER">> /\ call.columns[i].primaryKey

\* the number of placeholders of a text in front of its first token tok
PlaceholdersBefore(text, tok) == Count(SubSeq(text, 1, IndexOf(text, tok) - 1), "?")

\* the values of the conditions of a list, in condition order
ValuesOf(conds) ==
  LET c == ArrayOrNone(conds) IN Flatten([i \in 1..Len(c) |-> ConditionValues(c[i])])

\* the builders that return a text with its parameters
ParameterBuilders ==
  {"buildInsertQuery", "buildSelectQuery", "buildUpdateQuery", "buildDeleteQuery",
   "buildQueryFromBuilder", "buildAggregateQuery", "buildWhereClause"}

\* the parts of the current call that supply parameters: the values bound in
\* front of the conditions, the WHERE values, the HAVING values, the amounts
BoundParts ==
  LET none == << >>
      mapped(w) == Values(ObjectOrNone(w))
  IN  CASE call.fn = "buildInsertQuery" ->
             [first |-> Values(call.data), where |-> none, having |-> none,
              limit |-> Undef, offset |-> Undef]
        [] call.fn = "buildSelectQuery" ->
             [first |-> none, where |-> mapped(call.where), having |-> none,
              limit |-> call.limit, offset |-> call.offset]
        [] call.fn = "buildUpdateQuery" ->
             [first |-> Values(call.data), where |-> mapped(call.where), having |-> none,
              limit |-> Undef, offset |-> Undef]
        [] call.fn = "buildDeleteQuery" ->
             [first |-> none, where |-> mapped(call.where), having |-> none,
              limit |-> call.limit, offset |-> Undef]
        [] call.fn = "buildQueryFromBuilder" ->
             [first |-> none, where |-> ValuesOf(call.builder.where),
              having |-> ValuesOf(call.builder.having),
              limit |-> call.builder.limit, offset |-> call.builder.offset]
        [] call.fn = "buildWhereClause" ->
             [first |-> none, where |-> ValuesOf(Arr(call.conditions)), having |-> none,
              limit |-> Undef, offset |-> Undef]
        [] OTHER ->
             [first |-> none, where |-> ValuesOf(call.query.where),
              having |-> ValuesOf(call.query.having), limit |-> Undef, offset |-> Undef]

\* C25: for every builder that returns a text with parameters, and every
\* descriptor whose identifiers and raw join expressions hold no '?', the
\* text has as many '?' as there are parameters, and the parameters are in
\* the order of the placeholders from left to right: the WHERE values, then
\* the HAVING values, then the limit, then the offset.
C25_PlaceholdersMatchParams ==
  (/\ call.fn \in ParameterBuilders
   /\ ret.status = "ok"
   /\ \A name \in DescriptorNames : Count(name, "?") = 0
   /\ call.fn = "buildWhereClause" =>
        \A name \in ConditionFields(call.conditions) : Count(name, "?") = 0) =>
    LET p == BoundParts
        has(tok) == Count(ret.sql, tok) > 0
        limit == IF has(" LIMIT ") THEN <<p.limit>> ELSE << >>
        offset == IF has(" OFFSET ") THEN <<p.offset>> ELSE << >>
        n1 == Len(p.first)
        n2 == n1 + Len(p.where)
        n3 == n2 + Len(p.having)
        n4 == n3 + Len(limit)
    IN  /\ Count(ret.sql, "?") = Len(ret.params)
        /\ ret.params = p.first \o p.where \o p.having \o limit \o offset
        /\ has(" WHERE ") => PlaceholdersBefore(ret.sql, " WHERE ") = n1
        /\ has(" HAVING ") => PlaceholdersBefore(ret.sql, " HAVING ") = n2
        /\ has(" LIMIT ") => PlaceholdersBefore(ret.sql, " LIMIT ") = n3
        /\ has(" OFFSET ") => PlaceholdersBefore(ret.sql, " OFFSET ") = n4

\* a query with a join, WHERE values of an IN and a BETWEEN, a HAVING value,
\* a limit and an offset has been built
C25_Witness ==
  /\ call.fn = "buildQueryFromBuilder"
  /\ ret.status = "ok"
  /\ \A name \in DescriptorNames : Count(name, "?") = 0
  /\ NonEmpty(call.builder.joins)
  /\ Len(ValuesOf(call.builder.where)) = 4
  /\ Len(ValuesOf(call.builder.having)) = 1
  /\ ~IsUndef(call.builder.limit) /\ ~IsUndef(call.builder.offset)
  /\ call.builder.limit # call.builder.offset
  /\ Len(ret.params) = 7

\* C26: when the user supplied at least one WHERE condition to the node's
\* Update or Delete operation, the statement sent holds a WHERE clause with
\* one predicate per supplied condition; no condition is dropped silently.
C26_ConditionsNeverDropped ==
  (call.fn \in {"update", "delete"} /\ ret.status = "ok" /\ Len(call.where) >= 1) =>
    LET where == Clause(ret.sql, " WHERE ", {" LIMIT "})
    IN  /\ Count(ret.sql, " WHERE ") = 1
        /\ Len(SplitOn(where, " AND ")) = Len(call.where)
        /\ \A i \in 1..Len(call.where) :
             StartsWith(SplitOn(where, " AND ")[i], Quoted(call.where[i].column))

\* C27: the history loadMemoryVariables returns holds only messages of the
\* session of the memory, in ascending timestamp order, and of the n stored
\* messages of the session it is the min(n, maxMessages) most recent.
C27_MostRecentHistory ==
  (call.fn = "loadMemoryVariables" /\ ret.status = "ok" /\ ~ret.logged) =>
    LET m == call.memory
        stored == SessionRows(db.rows, Session(m))
        history == ret.retrieved
        returned == {history[i].id : i \in DOMAIN history}
        n == Cardinality(stored)
        keep == memoryConfig(m).maxMessages
    IN  /\ \A i \in DOMAIN history : history[i].sessionId = Session(m)
        /\ \A i, j \in DOMAIN history :
             i < j => history[i].timestamp <= history[j].timestamp
        /\ Len(history) = IF n < keep THEN n ELSE keep
        /\ Cardinality(returned) = Len(history)
        /\ returned \subseteq {r.id : r \in stored}
        /\ \A r \in stored, i \in DOMAIN history :
             r.id \notin returned => r.timestamp <= history[i].timestamp
        /\ ret.variables[1].v = IF returnMessages(m) THEN Arr(LangchainMessages(history))
                                ELSE Str(FormattedHistory(history))

\* C28: loadMemoryVariables never raises an error when the remote service
\* fails, during initialization or during retrieval: it returns an object
\* whose only key is memoryKey, holding the empty history, an empty list
\* when returnMessages is set and an empty string otherwise.  The calls that
\* sent a request to the service are the ones looked at.
C28_LoadDegradesGracefully ==
  (call.fn = "loadMemoryVariables" /\ http # << >>) =>
    LET m == call.memory
        empty == IF returnMessages(m) THEN Arr(<< >>) ELSE Str(<< >>)
    IN  /\ ret.status = "ok"
        /\ Len(ret.variables) = 1
        /\ ret.variables[1].k = memoryKey(m)
        /\ ret.logged => ret.variables[1].v = empty

\* the positions in a list of requests of the stores of messages of a type
StoresOf(requests, tableName, type) ==
  {i \in DOMAIN requests :
     /\ "sql" \in DOMAIN requests[i]
     /\ requests[i].sql = InsertSQL(tableName)
     /\ requests[i].params[2] = type}

\* the texts among the values of an object
TextsIn(values) ==
  {String(values[i].v) : i \in {j \in DOMAIN values : Truthy(values[j].v)}} \ {<< >>}

====
